---- MODULE Spec2Model ----
(***************************************************************************)
(* Model of the multi-turn tool-calling engine of netspy's openai package: *)
(* ConversationManager (ProcessMessage / sendChatRequest /                 *)
(* handleFunctionCalls) and FunctionCallManager (ExecuteFunction /         *)
(* ExecuteFunctions).                                                      *)
(*                                                                         *)
(* Strings are modelled as sequences of tokens: a fixed piece of a format  *)
(* string is one token, a %s / %v argument contributes its own tokens.     *)
(* The empty string is <<>>.  "text contains s" is token membership.       *)
(* A Go pointer-to-string (ChatMessage.Content) and a Go error are records *)
(* with an isNil flag.                                                     *)
(*                                                                         *)
(* ProcessMessage is split at its suspension points only: the completion   *)
(* request in flight (pc = "awaiting-model") and each executor invocation  *)
(* of the batch (pc = "awaiting-tools").  What the code does between two   *)
(* suspension points is one action.                                        *)
(***************************************************************************)
EXTENDS Integers, Sequences, FiniteSets, TLC

(* ---------------------------- bounds ----------------------------------- *)

\* Tool calls the remote model may request in one conversation (all batches
\* of all turns since the history was last empty).
MaxCalls == 2
\* AddSystemMessage and AddUserMessage are called only while the history is
\* at most this long.
MaxMessages == 1
\* ProcessMessage is called only while the history is at most this long.
MaxHistory == 3
\* Calls of a batch handed to ExecuteFunctions on its own (SpecFCM).
MaxBatch == 2
\* The operations of the analyst that start a turn are called only while the
\* history is at most this long.
MaxAsked == 2

\* Longest destination built from DestinationChars.
MaxDestination == 4

\* Longest list of events handed to FormatConnectionEvents.
MaxListed == 3

\* Most words of a query handed to the Query Enhancer on its own.
MaxWords == 2

\* Sessions are started only while fewer than this many are running.
MaxNesting == 3

(* ------------------------- strings and errors -------------------------- *)

NilContent == [isNil |-> TRUE, text |-> <<>>]
StrPtr(t) == [isNil |-> FALSE, text |-> t]

NilErr == [isNil |-> TRUE, msg |-> <<>>]
Errorf(t) == [isNil |-> FALSE, msg |-> t]

Contains(text, tok) == \E i \in 1..Len(text) : text[i] = tok

(* ----------------------------- inputs ---------------------------------- *)

SystemPrompt == <<"You are an expert network connectivity analyst">>
UserQueries == {<<"summarize network activity">>}
Models == {"gpt-4o-mini", "gpt-4o"}

\* Catalogs a constructed manager can have: the empty catalog, or the names
\* of a registry of two tools in one of the orders discovery can visit them.
Registries == {<<>>, <<"get_summary", "list_events">>}

\* Identifiers the remote model gives to the calls of one conversation, in order of emission.
CallIDs == <<"call_1", "call_2", "call_3", "call_4", "call_5", "call_6">>

\* Texts the remote model answers with.
AnswerTexts == {<<"Activity: 12 events; note: listing unavailable.">>}

\* What RunSingleCommand can return: (nil, err) or (result, nil).
TextContent(t) == [kind |-> "text", text |-> t]
ImageContent == [kind |-> "image", text |-> ""]
ExecutorOutcomes ==
    { [err |-> Errorf(<<"connection refused">>), content |-> <<>>],
      [err |-> NilErr, content |-> <<TextContent("12 events")>>] }

\* What the executor answers to the Function Call Manager taken on its own:
\* also no content at all, and content of several kinds.
FCMExecutorOutcomes ==
    ExecutorOutcomes
    \cup { [err |-> NilErr, content |-> <<>>],
           [err |-> NilErr,
            content |-> <<TextContent("12 events"), ImageContent, TextContent("3 drops")>>] }

(* --------------------------- state ------------------------------------- *)

VARIABLES
    messages,     \* cm.messages
    model,        \* cm.model
    functions,    \* fm.functions: sequence of function names
    pc,           \* "idle" | "awaiting-model" | "awaiting-tools"
    depth,        \* number of handleFunctionCalls frames of the running turn
    request,      \* body of the completion request in flight, or NoRequest
    toolCalls,    \* parameter of the running handleFunctionCalls
    results,      \* results accumulated by the running ExecuteFunctions
    executorLog,  \* calls passed to RunSingleCommand by the running ExecuteFunctions
    returned,     \* what ExecuteFunction returned for each call of the running batch
    execErr,      \* the error the last ExecuteFunctions returned
    ret,          \* what ProcessMessage returned, if it was the last operation called
    response,     \* outcome of the last sendChatRequest
    base,         \* length of the history when the running turn was started
    cycles,       \* batch sizes of the running turn
    used,         \* tool calls requested since the history was last empty
    ctx,          \* the context.Context handed to the running ProcessMessage
    reply,        \* the HTTP reply the last sendChatRequest read, or NoReply
    asked,        \* the last operation called on the analyst, or NoCall
    tool,         \* the tool descriptor handed to the Schema Translator
    decl,         \* the declaration the Schema Translator returned for tool
    mcpExecutor,  \* fm.mcpExecutor: the executor the session was constructed over
    callers,      \* the goroutines inside ProcessMessage on this manager, or NoCallers
    sent,         \* completion requests sent to the API by the running or last turn
    ci,           \* the ConnectionInfo handed to ToConnectionEvent, or NoInfo
    event,        \* the ConnectionEvent ToConnectionEvent returned, or NoEvent
    listing,      \* the call of FormatConnectionEvents and what it returned, or NoListing
    enhancedQuery, \* enhancedQuery of the running AnalyzeNetworkQuery, or NoEnhanced
    sessions,     \* the sessions the tools of the server have started, innermost last
    dispatched    \* the last tool call of a session and what became of it, or NoDispatch

\* The engine and what is recorded about its last turn.
engine == <<messages, model, functions, pc, depth, request, toolCalls, results,
            executorLog, returned, execErr, ret, response, base, cycles, used>>

\* The caller's context, the transport's reply, the analyst's caller, the
\* Schema Translator, the executor, concurrent callers, the count of requests,
\* the connection record being converted, the list of events being formatted,
\* the query being enhanced and the sessions of the server's tools: each is
\* followed by the specification whose operations act on it and left alone
\* by the others.
surroundings ==
    <<ctx, reply, asked, tool, decl, mcpExecutor, callers, sent, ci, event, listing,
      enhancedQuery, sessions, dispatched>>

vars == <<engine, surroundings>>

NoReply == [status |-> 0]
NoCall == [op |-> "none", query |-> <<>>, before |-> 0]
NoTool == [isNil |-> TRUE]
NoDecl == [isNil |-> TRUE]
NoCallers == <<>>
NoInfo == [isNil |-> TRUE]
NoEvent == [isNil |-> TRUE]
NoListing == [called |-> FALSE]
NoEnhanced == [isNil |-> TRUE, text |-> <<>>]
NoSessions == <<>>
NoDispatch == [toolName |-> "", answer |-> ""]

NoRequest == [sent |-> FALSE]
NoReturn == [kind |-> "none"]
ReturnText(t) == [kind |-> "text", text |-> t]
ReturnErr(t) == [kind |-> "err", err |-> t]
NoResponse == [kind |-> "none", err |-> NilErr, Choices |-> <<>>]
Response(err, choices) == [kind |-> "done", err |-> err, Choices |-> choices]

(* ------------------------- Schema Translator --------------------------- *)

\* A Go map is a function on its keys; EmptyMap is the map without keys.
EmptyMap == [n \in {} |-> ""]

\* json.Unmarshal(schema.Default, &defaultValue) with defaultValue an any.
JSONUnmarshalAny(raw) ==
    CASE raw = "60" -> [err |-> NilErr, value |-> [isNil |-> FALSE, number |-> 60]]
      [] raw = "null" -> [err |-> NilErr, value |-> [isNil |-> TRUE, number |-> 0]]
      [] OTHER -> [err |-> Errorf(<<"unexpected end of JSON input">>),
                   value |-> [isNil |-> TRUE, number |-> 0]]

\* Schema.Default: nil, or the bytes of a number, of null, of a cut-off object.
Defaults ==
    { [isNil |-> TRUE, raw |-> ""], [isNil |-> FALSE, raw |-> "60"],
      [isNil |-> FALSE, raw |-> "null"], [isNil |-> FALSE, raw |-> "{\"seconds\":"] }

\* The schemas of a property.
PropertySchemas ==
    { [Type |-> "integer", Description |-> d, Default |-> df] :
        d \in {"", "Duration in seconds to analyze (default: 60)"}, df \in Defaults }

PidSchema ==
    [Type |-> "integer", Description |-> "Process ID to analyze",
     Default |-> [isNil |-> TRUE, raw |-> ""]]

\* Schema.Properties: a nil map, an empty map, a map of one or two properties.
PropertyMaps ==
    { [isNil |-> TRUE, props |-> EmptyMap], [isNil |-> FALSE, props |-> EmptyMap] }
    \cup { [isNil |-> FALSE, props |-> [duration |-> p]] : p \in PropertySchemas }
    \cup { [isNil |-> FALSE, props |-> [duration |-> p, pid |-> PidSchema]] :
             p \in PropertySchemas }

\* Tool.InputSchema: nil, or a schema with a type, properties and required names.
NilSchema ==
    [isNil |-> TRUE, Type |-> "", Properties |-> [isNil |-> TRUE, props |-> EmptyMap],
     Required |-> <<>>]

Schemas ==
    {NilSchema}
    \cup { [isNil |-> FALSE, Type |-> t, Properties |-> pm, Required |-> rq] :
             t \in {"object", ""}, pm \in PropertyMaps, rq \in {<<>>, <<"duration">>} }

\* The tool descriptors the registry can hand to the translator.
Descriptors ==
    { [isNil |-> FALSE, Name |-> "get_network_summary",
       Description |-> "Get a summary of network connections for a specific process or PID",
       InputSchema |-> sch] : sch \in Schemas }

\* convertPropertySchema that copies the default without looking at the
\* error of json.Unmarshal.
convertPropertySchemaKeepDefault(schema) ==
    LET property == [type |-> schema.Type]
        described == IF schema.Description # ""
                     THEN property @@ [description |-> schema.Description]
                     ELSE property
        parsed == JSONUnmarshalAny(schema.Default.raw)
    IN IF ~schema.Default.isNil
       THEN described @@ [default |-> parsed.value]
       ELSE described

convertPropertySchema(schema) ==
    LET property == [type |-> schema.Type]
        described == IF schema.Description # ""
                     THEN property @@ [description |-> schema.Description]
                     ELSE property
        parsed == JSONUnmarshalAny(schema.Default.raw)
    IN IF ~schema.Default.isNil /\ parsed.err.isNil
       THEN described @@ [default |-> parsed.value]
       ELSE described

convertJSONSchemaToOpenAI(schema) ==
    IF schema.isNil
    THEN [type |-> "object", properties |-> EmptyMap]
    ELSE LET result == [type |-> schema.Type]
             withProperties ==
                 IF ~schema.Properties.isNil
                 THEN result @@
                      [properties |->
                          [n \in DOMAIN schema.Properties.props |->
                              convertPropertySchema(schema.Properties.props[n])]]
                 ELSE result
         IN IF Len(schema.Required) > 0
            THEN withProperties @@ [required |-> schema.Required]
            ELSE withProperties

\* convertMCPToolToFunction that names the declaration after the descriptor.
convertMCPToolToFunctionByName(toolName, t) ==
    [isNil |-> FALSE, Name |-> t.Name, Description |-> t.Description,
     Parameters |-> convertJSONSchemaToOpenAI(t.InputSchema)]

convertMCPToolToFunction(toolName, t) ==
    [isNil |-> FALSE, Name |-> toolName, Description |-> t.Description,
     Parameters |-> convertJSONSchemaToOpenAI(t.InputSchema)]

(* ----------------------- FunctionCallManager --------------------------- *)

\* json.Unmarshal([]byte(Arguments), &arguments) with arguments a map[string]any.
JSONUnmarshalArgs(payload) ==
    CASE payload = "{\"duration\":300}" ->
            [err |-> NilErr, value |-> <<"duration=300">>]
      [] payload = "{\"duration\":" ->
            [err |-> Errorf(<<"unexpected end of JSON input">>), value |-> <<>>]
      [] payload = "null" ->
            [err |-> NilErr, value |-> <<>>]
      [] payload = "[1]" ->
            [err |-> Errorf(<<"json: cannot unmarshal array into Go value of type map[string]interface {}">>),
             value |-> <<>>]
      [] OTHER ->
            [err |-> Errorf(<<"invalid character looking for beginning of value">>), value |-> <<>>]

ToolCall(id, name, arguments) == [ID |-> id, Name |-> name, Arguments |-> arguments]
ToolCallResult(id, role, content) == [ToolCallID |-> id, Role |-> role, Content |-> content]
NilResult == [isNilResult |-> TRUE]

\* A registered tool: the descriptor stored in the registry of an executor.
RegisteredTool(name) ==
    [isNil |-> FALSE, Name |-> name, Description |-> "Get a summary of network connections",
     InputSchema |-> [isNil |-> FALSE, Type |-> "object",
                      Properties |-> [isNil |-> FALSE, props |-> [pid |-> PidSchema]],
                      Required |-> <<>>]]

\* The maps GetRegisteredTools can return, from the registered name to the
\* descriptor: the name a tool is registered under need not be the Name of
\* its descriptor.
RegisteredTools ==
    { EmptyMap,
      [get_summary |-> RegisteredTool("get_summary")],
      [get_summary |-> RegisteredTool("get_summary"),
       list_events |-> RegisteredTool("event_list")] }

\* An executor: whether it implements MCPToolDiscovery, and its registry.
FullRegistry ==
    CHOOSE m \in RegisteredTools : \A n \in RegisteredTools : DOMAIN n \subseteq DOMAIN m

Executors ==
    { [discovery |-> FALSE, registeredTools |-> FullRegistry] }
    \cup { [discovery |-> TRUE, registeredTools |-> m] : m \in RegisteredTools }

\* The orders in which a range over a Go map can visit its keys.
RangeOrders(m) ==
    { o \in [1..Cardinality(DOMAIN m) -> DOMAIN m] :
        \A i, j \in DOMAIN o : i # j => o[i] # o[j] }

\* registerKnownMCPTools that registers the summary tool.
registerKnownMCPToolsSummary == <<"get_summary">>

\* registerKnownMCPTools prints a warning and registers nothing.
registerKnownMCPTools == <<>>

\* The catalogs NewFunctionCallManager can leave in fm.functions, as the
\* sequence of the declarations' names: discoverMCPTools appends one
\* declaration per entry of the map, in the order the range visits them.
NewFunctionCallManager(executor) ==
    IF executor.discovery
    THEN { [i \in 1..Len(o) |->
              convertMCPToolToFunction(o[i], executor.registeredTools[o[i]]).Name] :
           o \in RangeOrders(executor.registeredTools) }
    ELSE { registerKnownMCPTools }

\* The executor with discovery whose registry holds the names of catalog.
DiscoveringExecutor(catalog) ==
    CHOOSE e \in Executors :
        /\ e.discovery
        /\ DOMAIN e.registeredTools = {catalog[i] : i \in DOMAIN catalog}

GetFunctions == functions

\* FunctionExists that looks at the first catalog entry only.
FunctionExistsFirstOnly(name) == Len(functions) > 0 /\ functions[1] = name

\* The loop of ExecuteFunction that validates the function name.
FunctionExists(name) == \E i \in 1..Len(functions) : functions[i] = name

\* ExtractContent that stops after the first text fragment.
ExtractContentFirst(content) ==
    IF \E i \in DOMAIN content : content[i].kind = "text"
    THEN <<content[CHOOSE i \in DOMAIN content :
                     /\ content[i].kind = "text"
                     /\ \A j \in 1..(i - 1) : content[j].kind # "text"].text, "\n">>
    ELSE <<>>

\* The content extracted from an MCP result: every text fragment followed by "\n".
RECURSIVE ExtractContent(_)
ExtractContent(content) ==
    IF content = <<>> THEN <<>>
    ELSE (IF Head(content).kind = "text" THEN <<Head(content).text, "\n">> ELSE <<>>)
         \o ExtractContent(Tail(content))

\* One call of RunSingleCommand and what it answered with: the error and the
\* Content of the result.
Invocation(name, arguments, outcome) ==
    [toolName |-> name, arguments |-> arguments, err |-> outcome.err,
     content |-> outcome.content]

\* Executed that invokes the executor a second time when it failed.
ExecutedRetrying(functionCall, arguments, outcome) ==
    IF ~outcome.err.isNil
    THEN [result |-> ToolCallResult(functionCall.ID, "tool",
                        <<"Error executing ", functionCall.Name, ": ">> \o outcome.err.msg),
          err |-> NilErr,
          invoked |-> <<Invocation(functionCall.Name, arguments, outcome),
                        Invocation(functionCall.Name, arguments, outcome)>>]
    ELSE [result |-> ToolCallResult(functionCall.ID, "tool", ExtractContent(outcome.content)),
          err |-> NilErr,
          invoked |-> <<Invocation(functionCall.Name, arguments, outcome)>>]

\* What ExecuteFunction returns once the executor has been invoked.
Executed(functionCall, arguments, outcome) ==
    IF ~outcome.err.isNil
    THEN [result |-> ToolCallResult(functionCall.ID, "tool",
                        <<"Error executing ", functionCall.Name, ": ">> \o outcome.err.msg),
          err |-> NilErr,
          invoked |-> <<Invocation(functionCall.Name, arguments, outcome)>>]
    ELSE [result |-> ToolCallResult(functionCall.ID, "tool", ExtractContent(outcome.content)),
          err |-> NilErr,
          invoked |-> <<Invocation(functionCall.Name, arguments, outcome)>>]

\* ExecuteFunction that goes on after a failed json.Unmarshal.
ExecuteFunctionIgnoreParseError(functionCall, outcome) ==
    LET parsed == JSONUnmarshalArgs(functionCall.Arguments) IN
    IF ~FunctionExists(functionCall.Name)
    THEN [result |-> NilResult,
          err |-> Errorf(<<"unknown function: ", functionCall.Name>>),
          invoked |-> <<>>]
    ELSE Executed(functionCall, parsed.value, outcome)

\* ExecuteFunction that does not validate the function name.
ExecuteFunctionNoValidate(functionCall, outcome) ==
    LET parsed == JSONUnmarshalArgs(functionCall.Arguments) IN
    IF ~parsed.err.isNil
    THEN [result |-> NilResult,
          err |-> Errorf(<<"failed to parse function arguments: ">> \o parsed.err.msg),
          invoked |-> <<>>]
    ELSE Executed(functionCall, parsed.value, outcome)

\* ExecuteFunction: outcome is what RunSingleCommand returns if it is invoked.
\* invoked lists the call of RunSingleCommand, if any.
ExecuteFunction(functionCall, outcome) ==
    LET parsed == JSONUnmarshalArgs(functionCall.Arguments) IN
    IF ~parsed.err.isNil
    THEN [result |-> NilResult,
          err |-> Errorf(<<"failed to parse function arguments: ">> \o parsed.err.msg),
          invoked |-> <<>>]
    ELSE IF ~FunctionExists(functionCall.Name)
    THEN [result |-> NilResult,
          err |-> Errorf(<<"unknown function: ", functionCall.Name>>),
          invoked |-> <<>>]
    ELSE Executed(functionCall, parsed.value, outcome)

\* ExecuteFunctionsIter with the failure result built without the call's identifier.
ExecuteFunctionsIterNoID(call, outcome) ==
    LET r == ExecuteFunction(call, outcome) IN
    IF ~r.err.isNil
    THEN ToolCallResult("", "tool", <<"Function execution failed: ">> \o r.err.msg)
    ELSE r.result

\* One iteration of the loop of ExecuteFunctions: the result appended for call.
ExecuteFunctionsIter(call, outcome) ==
    LET r == ExecuteFunction(call, outcome) IN
    IF ~r.err.isNil
    THEN ToolCallResult(call.ID, "tool", <<"Function execution failed: ">> \o r.err.msg)
    ELSE r.result

(* ----------------------- ConversationManager --------------------------- *)

ChatMessage(role, content, calls, id) ==
    [Role |-> role, Content |-> content, ToolCalls |-> calls, ToolCallID |-> id]

\* The result carries one of the two error texts of the Function Call Manager.
IsFailure(result) ==
    result.Content # <<>> /\ Head(result.Content) \in {"Function execution failed: ", "Error executing "}

\* ResultMessages that appends the results in reverse order.
RECURSIVE ResultMessagesReversed(_)
ResultMessagesReversed(rs) ==
    IF rs = <<>> THEN <<>>
    ELSE ResultMessagesReversed(Tail(rs))
         \o <<[Role |-> Head(rs).Role, Content |-> StrPtr(Head(rs).Content),
               ToolCalls |-> <<>>, ToolCallID |-> Head(rs).ToolCallID]>>

\* ResultMessages whose messages all point to the content of the last result
\* (one loop variable shared by the iterations).
ResultMessagesSharedContent(rs) ==
    [i \in 1..Len(rs) |->
        ChatMessage(rs[i].Role, StrPtr(rs[Len(rs)].Content), <<>>, rs[i].ToolCallID)]

\* The messages handleFunctionCalls appends for the results of a batch; each
\* message points to the content of its own result (the loop variable is
\* per iteration).
RECURSIVE ResultMessages(_)
ResultMessages(rs) ==
    IF rs = <<>> THEN <<>>
    ELSE <<ChatMessage(Head(rs).Role, StrPtr(Head(rs).Content), <<>>, Head(rs).ToolCallID)>>
         \o ResultMessages(Tail(rs))

\* ExecuteFunctions that reports a failed call as its own error.
ExecuteFunctionsFailFast(rs) ==
    [results |-> rs,
     err |-> IF \E i \in 1..Len(rs) : IsFailure(rs[i])
             THEN Errorf(<<"tool call failed">>) ELSE NilErr]

\* ExecuteFunctions that gives up at the first failed call.
ExecuteFunctionsStopAtFailure(rs) ==
    LET firstBad == IF \E i \in 1..Len(rs) : IsFailure(rs[i])
                    THEN CHOOSE i \in 1..Len(rs) :
                            IsFailure(rs[i]) /\ \A j \in 1..(i - 1) : ~IsFailure(rs[j])
                    ELSE Len(rs) + 1
    IN [results |-> SubSeq(rs, 1, firstBad - 1), err |-> NilErr]

\* ExecuteFunctions once its loop has produced rs: "return results, nil".
ExecuteFunctions(rs) == [results |-> rs, err |-> NilErr]

\* ProcessMessage returns to its caller: the frames of the turn are gone.
Return ==
    /\ pc' = "idle"
    /\ depth' = 0
    /\ toolCalls' = <<>>
    /\ results' = <<>>
    /\ executorLog' = <<>>
    /\ returned' = <<>>

\* The tools of a request: one per function of the catalog, in catalog order.
Tools(fns) == [i \in 1..Len(fns) |-> [Type |-> "function", Function |-> fns[i]]]

\* ChatRequest that offers the first function of the catalog only.
ChatRequestFirstTool(msgs) ==
    [sent |-> TRUE, Model |-> model, Messages |-> msgs,
     Tools |-> Tools(IF GetFunctions = <<>> THEN <<>> ELSE <<Head(GetFunctions)>>),
     ToolChoice |-> "auto"]

\* The body sendChatRequest builds from the manager's state.
ChatRequest(msgs) ==
    [sent |-> TRUE, Model |-> model, Messages |-> msgs,
     Tools |-> Tools(GetFunctions), ToolChoice |-> "auto"]

\* sendChatRequest that sends nothing once a tool result ends the history.
sendChatRequestFirstOnly(msgs, apiKeySet) ==
    IF apiKeySet /\ msgs[Len(msgs)].Role # "tool"
    THEN /\ request' = ChatRequest(msgs)
         /\ response' = NoResponse
    ELSE /\ request' = NoRequest
         /\ response' = Response(Errorf(<<"OPENAI_API_KEY not set">>), <<>>)

\* sendChatRequest up to http.DefaultClient.Do: without an API key it returns
\* an error at once; otherwise the request built from msgs is in flight.
sendChatRequest(msgs, apiKeySet) ==
    IF apiKeySet
    THEN /\ request' = ChatRequest(msgs)
         /\ response' = NoResponse
    ELSE /\ request' = NoRequest
         /\ response' = Response(Errorf(<<"OPENAI_API_KEY not set">>), <<>>)

\* NewConversationManager: empty history, default model, catalog discovered
\* from the executor.
Init ==
    /\ messages = <<>>
    /\ model = "gpt-4o-mini"
    /\ functions \in Registries
    /\ pc = "idle"
    /\ depth = 0
    /\ request = NoRequest
    /\ toolCalls = <<>>
    /\ results = <<>>
    /\ executorLog = <<>>
    /\ returned = <<>>
    /\ execErr = NilErr
    /\ ret = NoReturn
    /\ response = NoResponse
    /\ base = 0
    /\ cycles = <<>>
    /\ used = 0
    /\ ctx = "live"
    /\ reply = NoReply
    /\ asked = NoCall
    /\ tool = NoTool
    /\ decl = NoDecl
    /\ mcpExecutor = DiscoveringExecutor(functions)
    /\ callers = NoCallers
    /\ sent = 0
    /\ ci = NoInfo
    /\ event = NoEvent
    /\ listing = NoListing
    /\ enhancedQuery = NoEnhanced
    /\ sessions = NoSessions
    /\ dispatched = NoDispatch

\* An operation other than ProcessMessage was called: what the last turn
\* returned and went through is no longer looked at.
ForgetTurn ==
    /\ ret' = NoReturn
    /\ response' = NoResponse
    /\ base' = 0
    /\ cycles' = <<>>

SetModel(m) ==
    /\ pc = "idle"
    /\ model' = m
    /\ ForgetTurn
    /\ UNCHANGED <<messages, functions, pc, depth, request, toolCalls, results,
                   executorLog, returned, execErr, used>>

AddSystemMessage(content) ==
    /\ pc = "idle"
    /\ Len(messages) <= MaxMessages
    /\ messages' = Append(messages, ChatMessage("system", StrPtr(content), <<>>, ""))
    /\ ForgetTurn
    /\ UNCHANGED <<model, functions, pc, depth, request, toolCalls, results,
                   executorLog, returned, execErr, used>>

\* AddUserMessage that starts the history afresh.
AddUserMessageReplacing(content) ==
    /\ pc = "idle"
    /\ Len(messages) <= MaxMessages
    /\ messages' = <<ChatMessage("user", StrPtr(content), <<>>, "")>>
    /\ ForgetTurn
    /\ UNCHANGED <<model, functions, pc, depth, request, toolCalls, results,
                   executorLog, returned, execErr, used>>

AddUserMessage(content) ==
    /\ pc = "idle"
    /\ Len(messages) <= MaxMessages
    /\ messages' = Append(messages, ChatMessage("user", StrPtr(content), <<>>, ""))
    /\ ForgetTurn
    /\ UNCHANGED <<model, functions, pc, depth, request, toolCalls, results,
                   executorLog, returned, execErr, used>>

\* ClearConversation that forgets the catalog with the history.
ClearConversationAndCatalog ==
    /\ pc = "idle"
    /\ messages' = <<>>
    /\ functions' = <<>>
    /\ ForgetTurn
    /\ used' = 0
    /\ UNCHANGED <<model, pc, depth, request, toolCalls, results,
                   executorLog, returned, execErr>>

ClearConversation ==
    /\ pc = "idle"
    /\ messages' = <<>>
    /\ ForgetTurn
    /\ used' = 0
    /\ UNCHANGED <<model, functions, pc, depth, request, toolCalls, results,
                   executorLog, returned, execErr>>

\* ProcessMessage up to the first suspension: append the user message and
\* start the first completion request.
ProcessMessage(userMessage, apiKeySet) ==
    /\ pc = "idle"
    /\ Len(messages) <= MaxHistory
    /\ messages' = Append(messages, ChatMessage("user", StrPtr(userMessage), <<>>, ""))
    /\ sendChatRequest(messages', apiKeySet)
    /\ IF apiKeySet
       THEN /\ pc' = "awaiting-model"
            /\ ret' = NoReturn
       ELSE /\ pc' = "idle"
            /\ ret' = ReturnErr(<<"failed to send chat request: ">> \o response'.err.msg)
    /\ depth' = 0
    /\ base' = Len(messages)
    /\ cycles' = <<>>
    /\ toolCalls' = <<>>
    /\ results' = <<>>
    /\ executorLog' = <<>>
    /\ returned' = <<>>
    /\ UNCHANGED <<model, functions, execErr, used>>

\* The batches of n calls the remote model can request next: names and
\* payloads are free, identifiers are fresh within the conversation.
Batches(n) ==
    { [i \in 1..n |-> ToolCall(CallIDs[used + i], c[i][1], c[i][2])] :
        c \in [1..n -> {"get_summary", "bogus_tool"}
                         \X {"{\"duration\":300}", "{\"duration\":"}] }

\* The assistant messages the completion API can answer with: the role of a
\* choice is "assistant", its content and its tool calls are both optional.
AssistantMessages ==
    { ChatMessage("assistant", c, b, "") :
        c \in {NilContent} \cup {StrPtr(t) : t \in AnswerTexts},
        b \in UNION {Batches(n) : n \in 0..(MaxCalls - used)} }

\* Status codes the completion API answers with.
HTTPStatuses == {200, 500}

\* Bodies the completion API answers with: text that is not JSON, an error
\* payload, a response without choices, a response whose first choice is an
\* assistant message.  Error is <<>> for an absent "error" member.
Bodies ==
    { [json |-> FALSE, Error |-> <<>>, Choices |-> <<>>],
      [json |-> TRUE, Error |-> <<"server error">>, Choices |-> <<>>],
      [json |-> TRUE, Error |-> <<>>, Choices |-> <<>>] }
    \cup { [json |-> TRUE, Error |-> <<>>, Choices |-> <<m>>] : m \in AssistantMessages }

\* What http.DefaultClient.Do can return: an error, or a reply of any status
\* with any body.
HTTPReplies ==
    { [err |-> Errorf(<<"Post https://api.openai.com/v1/chat/completions: connection refused">>),
       StatusCode |-> 0,
       Body |-> [json |-> FALSE, Error |-> <<>>, Choices |-> <<>>]] }
    \cup { [err |-> NilErr, StatusCode |-> st, Body |-> b] : st \in HTTPStatuses, b \in Bodies }

\* sendChatRequest from the return of Do on: the error of Do, of Decode or of
\* an error payload, or else the decoded response.  The status code of the
\* reply is not read.
ReadReply(p) ==
    IF ~p.err.isNil THEN Response(p.err, <<>>)
    ELSE IF ~p.Body.json
    THEN Response(Errorf(<<"invalid character '<' looking for beginning of value">>), <<>>)
    ELSE IF p.Body.Error # <<>>
    THEN Response(Errorf(<<"OpenAI API error: ">> \o p.Body.Error), <<>>)
    ELSE Response(NilErr, p.Body.Choices)

\* What sendChatRequest can return once the request is in flight.
Responses == {ReadReply(p) : p \in HTTPReplies}

\* ChoiceKind that looks at the content before the tool calls.
ChoiceKindContentFirst(choice) ==
    IF ~choice.Content.isNil THEN "text"
    ELSE IF Len(choice.ToolCalls) > 0 THEN "calls"
    ELSE "empty"

\* What ProcessMessage and handleFunctionCalls do with the appended choice:
\* execute its tool calls, return its content, or fail for lack of both.
ChoiceKind(choice) ==
    IF Len(choice.ToolCalls) > 0 THEN "calls"
    ELSE IF ~choice.Content.isNil THEN "text"
    ELSE "empty"

\* The code after sendChatRequest returns (enabled while pc = "awaiting-model",
\* see Next), in ProcessMessage (depth = 0) and in handleFunctionCalls
\* (depth > 0), up to the next suspension point.
ReceiveResponse(r) ==
    /\ request' = NoRequest
    /\ response' = r
    /\ IF ~r.err.isNil
       THEN /\ ret' = ReturnErr(<<IF depth = 0 THEN "failed to send chat request: "
                                  ELSE "failed to get final response: ">> \o r.err.msg)
            /\ Return
            /\ UNCHANGED <<messages, cycles, used>>
       ELSE IF Len(r.Choices) = 0
       THEN /\ ret' = ReturnErr(<<IF depth = 0 THEN "no response from OpenAI"
                                  ELSE "no final response from OpenAI">>)
            /\ Return
            /\ UNCHANGED <<messages, cycles, used>>
       ELSE LET choice == r.Choices[1]
                kind == ChoiceKind(choice)
            IN
            /\ messages' = Append(messages, choice)
            /\ IF kind = "calls"
               THEN /\ pc' = "awaiting-tools"
                    /\ depth' = depth + 1
                    /\ toolCalls' = choice.ToolCalls
                    /\ results' = <<>>
                    /\ executorLog' = <<>>
                    /\ returned' = <<>>
                    /\ cycles' = Append(cycles, Len(choice.ToolCalls))
                    /\ used' = used + Len(choice.ToolCalls)
                    /\ ret' = NoReturn
               ELSE /\ Return
                    /\ ret' = IF kind = "text"
                              THEN ReturnText(choice.Content.text)
                              ELSE ReturnErr(<<IF depth = 0 THEN "no content in response"
                                               ELSE "no content in final response">>)
                    /\ UNCHANGED <<cycles, used>>
    /\ UNCHANGED <<model, functions, execErr, base>>

\* handleFunctionCalls: one iteration of the loop of ExecuteFunctions per
\* step; after the last call of the batch ExecuteFunctions returns, the
\* results are appended to the history and the next completion request is
\* started.
handleFunctionCalls(outcome, apiKeySet) ==
    /\ pc = "awaiting-tools"
    /\ Len(results) < Len(toolCalls)
    /\ LET call == toolCalls[Len(results) + 1]
           r == ExecuteFunction(call, outcome)
           all == Append(results, ExecuteFunctionsIter(call, outcome))
           log == executorLog \o r.invoked
           rets == Append(returned, r)
           out == ExecuteFunctions(all)
       IN IF Len(all) < Len(toolCalls)
          THEN /\ results' = all
               /\ executorLog' = log
               /\ returned' = rets
               /\ UNCHANGED <<messages, pc, request, ret, response, depth, toolCalls,
                              execErr>>
          ELSE /\ execErr' = out.err
               /\ IF ~out.err.isNil
                  THEN /\ Return
                       /\ ret' = ReturnErr(<<"failed to execute functions: ">> \o out.err.msg)
                       /\ UNCHANGED <<messages, request, response>>
                  ELSE /\ messages' = messages \o ResultMessages(out.results)
                       /\ sendChatRequest(messages', apiKeySet)
                       /\ IF apiKeySet
                          THEN /\ pc' = "awaiting-model"
                               /\ results' = out.results
                               /\ executorLog' = log
                               /\ returned' = rets
                               /\ UNCHANGED <<ret, depth, toolCalls>>
                          ELSE /\ Return
                               /\ ret' = ReturnErr(<<"failed to get final response: ">>
                                                   \o response'.err.msg)
    /\ UNCHANGED <<model, functions, base, cycles, used>>

\* The operations of a ConversationManager, called with a context that is
\* not cancelled.
Next ==
    \/ UNCHANGED surroundings /\ \E m \in Models : SetModel(m)
    \/ UNCHANGED surroundings /\ AddSystemMessage(SystemPrompt)
    \/ UNCHANGED surroundings /\ \E q \in UserQueries : AddUserMessage(q)
    \/ UNCHANGED surroundings /\ ClearConversation
    \/ UNCHANGED surroundings /\ \E q \in UserQueries, k \in BOOLEAN : ProcessMessage(q, k)
    \/ UNCHANGED surroundings /\ pc = "awaiting-model"
          /\ \E r \in Responses : ReceiveResponse(r)
    \/ UNCHANGED surroundings
          /\ \E o \in ExecutorOutcomes, k \in BOOLEAN : handleFunctionCalls(o, k)

Spec == Init /\ [][Next]_vars

(* ------------- the Function Call Manager on its own -------------------- *)

\* The batches ExecuteFunctions can be handed: any identifiers (repeated ones
\* included), names and payloads.
FCMBatches ==
    UNION { [1..n -> {ToolCall(id, nm, a) :
                        id \in {"call_1", "call_2"},
                        nm \in {"get_summary", "list_events", "bogus_tool"},
                        a \in {"{\"duration\":300}", "null", "{\"duration\":", "[1]"}}] :
            n \in 1..MaxBatch }

\* The engine right after a response that requests the batch b.
InitFCM ==
    \E b \in FCMBatches :
        /\ messages = << ChatMessage("user", StrPtr(<<"summarize network activity">>), <<>>, ""),
                         ChatMessage("assistant", NilContent, b, "") >>
        /\ model = "gpt-4o-mini"
        /\ functions \in Registries
        /\ pc = "awaiting-tools"
        /\ depth = 1
        /\ request = NoRequest
        /\ toolCalls = b
        /\ results = <<>>
        /\ executorLog = <<>>
        /\ returned = <<>>
        /\ execErr = NilErr
        /\ ret = NoReturn
        /\ response = Response(NilErr, <<ChatMessage("assistant", NilContent, b, "")>>)
        /\ base = 0
        /\ cycles = <<Len(b)>>
        /\ used = Len(b)
        /\ ctx = "live"
        /\ reply = NoReply
        /\ asked = NoCall
        /\ tool = NoTool
        /\ decl = NoDecl
        /\ mcpExecutor = DiscoveringExecutor(functions)
        /\ callers = NoCallers
        /\ sent = 0
        /\ ci = NoInfo
        /\ event = NoEvent
        /\ listing = NoListing
        /\ enhancedQuery = NoEnhanced
        /\ sessions = NoSessions
        /\ dispatched = NoDispatch

NextFCM ==
    /\ \E o \in FCMExecutorOutcomes, k \in BOOLEAN : handleFunctionCalls(o, k)
    /\ UNCHANGED surroundings

SpecFCM == InitFCM /\ [][NextFCM]_vars

(* ------------- the transport and the caller's context ------------------- *)

\* The caller cancels the context of the running ProcessMessage.
Cancel ==
    /\ pc # "idle"
    /\ ctx = "live"
    /\ ctx' = "cancelled"
    /\ UNCHANGED <<engine, reply, asked, tool, decl, mcpExecutor, callers, sent, ci, event, listing, enhancedQuery, sessions, dispatched>>

\* ProcessMessage called with a live context; the reply to each completion
\* request is recorded with its status code; the context is handed on to
\* RunSingleCommand, which answers as it does otherwise or fails.
NextTransport ==
    \/ /\ \E q \in UserQueries, k \in BOOLEAN : ProcessMessage(q, k)
       /\ ctx' = "live"
       /\ reply' = NoReply
       /\ UNCHANGED <<asked, tool, decl, mcpExecutor, callers, sent, ci, event, listing, enhancedQuery, sessions, dispatched>>
    \/ Cancel
    \/ /\ pc = "awaiting-model"
       /\ \E p \in HTTPReplies :
            /\ ReceiveResponse(ReadReply(p))
            /\ reply' = [status |-> p.StatusCode]
       /\ UNCHANGED <<ctx, asked, tool, decl, mcpExecutor, callers, sent, ci, event, listing, enhancedQuery, sessions, dispatched>>
    \/ /\ \E o \in ExecutorOutcomes, k \in BOOLEAN : handleFunctionCalls(o, k)
       /\ UNCHANGED surroundings

SpecTransport == Init /\ [][NextTransport]_vars

(* --------------------- ContextualNetworkAnalyst ------------------------ *)

\* A query is the sequence of its characters; a suffix of the Query Enhancer
\* is one piece of text.

QuerySummarize ==
    <<"s", "u", "m", "m", "a", "r", "i", "z", "e", " ", "n", "e", "t", "w", "o", "r",
      "k", " ", "a", "c", "t", "i", "v", "i", "t", "y">>

QuerySummaryUpper == <<"S", "u", "m", "m", "a", "r", "y">>

QueryLossOverview ==
    <<"p", "a", "c", "k", "e", "t", " ", "L", "O", "S", "S", " ", "o", "v", "e", "r",
      "v", "i", "e", "w">>

Queries == {<<>>, QuerySummarize, QuerySummaryUpper, QueryLossOverview}

\* unicode.ToLower on one character.
ToLowerChar(c) ==
    CASE c = "A" -> "a"
      [] c = "B" -> "b"
      [] c = "C" -> "c"
      [] c = "D" -> "d"
      [] c = "E" -> "e"
      [] c = "F" -> "f"
      [] c = "G" -> "g"
      [] c = "H" -> "h"
      [] c = "I" -> "i"
      [] c = "J" -> "j"
      [] c = "K" -> "k"
      [] c = "L" -> "l"
      [] c = "M" -> "m"
      [] c = "N" -> "n"
      [] c = "O" -> "o"
      [] c = "P" -> "p"
      [] c = "Q" -> "q"
      [] c = "R" -> "r"
      [] c = "S" -> "s"
      [] c = "T" -> "t"
      [] c = "U" -> "u"
      [] c = "V" -> "v"
      [] c = "W" -> "w"
      [] c = "X" -> "x"
      [] c = "Y" -> "y"
      [] c = "Z" -> "z"
      [] OTHER -> c

\* strings.ToLower
ToLower(str) == [i \in 1..Len(str) |-> ToLowerChar(str[i])]

\* strings.Contains: substr occurs in str as a run of consecutive characters.
StringsContains(str, substr) ==
    \E i \in 0..(Len(str) - Len(substr)) : SubSeq(str, i + 1, i + Len(substr)) = substr

\* The keywords enhanceUserQuery looks for.
Kw ==
    [ AllAvailableTools |->
          <<"a", "l", "l", " ", "a", "v", "a", "i", "l", "a", "b", "l", "e", " ", "t", "o",
           "o", "l", "s">>,
      UseAllTools |->
          <<"u", "s", "e", " ", "a", "l", "l", " ", "t", "o", "o", "l", "s">>,
      Comprehensive |->
          <<"c", "o", "m", "p", "r", "e", "h", "e", "n", "s", "i", "v", "e">>,
      CompleteAnalysis |->
          <<"c", "o", "m", "p", "l", "e", "t", "e", " ", "a", "n", "a", "l", "y", "s", "i",
           "s">>,
      Summary |->
          <<"s", "u", "m", "m", "a", "r", "y">>,
      Overview |->
          <<"o", "v", "e", "r", "v", "i", "e", "w">>,
      Drop |->
          <<"d", "r", "o", "p">>,
      Loss |->
          <<"l", "o", "s", "s">>,
      Packet |->
          <<"p", "a", "c", "k", "e", "t">>,
      Pattern |->
          <<"p", "a", "t", "t", "e", "r", "n">>,
      Behavior |->
          <<"b", "e", "h", "a", "v", "i", "o", "r">>,
      Connection |->
          <<"c", "o", "n", "n", "e", "c", "t", "i", "o", "n">>,
      Network |->
          <<"n", "e", "t", "w", "o", "r", "k">> ]

\* The texts enhanceUserQuery appends.
Suffix ==
    [ AllTools |->
          "\n\nIMPORTANT: You MUST use ALL 5 core analysis tools for comprehensive analysis. Call these tools in this EXACT order: 1) get_network_summary with duration=300, 2) list_connections, 3) get_packet_drop_summary with duration=300, 4) list_packet_drops (MANDATORY even if no drops found), 5) analyze_patterns with duration=300. Do not skip ANY tools. Each tool provides unique data.",
      Comprehensive |->
          "\n\nPlease use multiple tools (at least get_network_summary, list_connections, get_packet_drop_summary, and analyze_patterns) to provide comprehensive data.",
      Summary |->
          "\n\nPlease use multiple network analysis tools including get_network_summary, list_connections, and get_packet_drop_summary to provide comprehensive data.",
      Drops |->
          "\n\nPlease check for packet drops and analyze any connectivity issues using get_packet_drop_summary and list_packet_drops tools.",
      Patterns |->
          "\n\nPlease analyze connection patterns using get_network_summary, list_connections, and analyze_patterns tools.",
      Connections |->
          "\n\nPlease gather network connection data using get_network_summary and list_connections tools, then analyze the results.",
      Default |->
          "\n\nPlease use appropriate network analysis tools (at least 2-3 different tools) to gather relevant data before providing insights." ]

\* enhanceUserQuery that looks for "connection" and "network" before the
\* keywords of packet drops and of patterns.
enhanceUserQueryConnectionsFirst(query) ==
    LET queryLower == ToLower(query) IN
    IF StringsContains(queryLower, Kw.AllAvailableTools)
       \/ StringsContains(queryLower, Kw.UseAllTools)
    THEN query \o <<Suffix.AllTools>>
    ELSE IF StringsContains(queryLower, Kw.Comprehensive)
       \/ StringsContains(queryLower, Kw.CompleteAnalysis)
    THEN query \o <<Suffix.Comprehensive>>
    ELSE IF StringsContains(queryLower, Kw.Summary)
       \/ StringsContains(queryLower, Kw.Overview)
    THEN query \o <<Suffix.Summary>>
    ELSE IF StringsContains(queryLower, Kw.Connection)
       \/ StringsContains(queryLower, Kw.Network)
    THEN query \o <<Suffix.Connections>>
    ELSE IF StringsContains(queryLower, Kw.Drop)
       \/ StringsContains(queryLower, Kw.Loss)
       \/ StringsContains(queryLower, Kw.Packet)
    THEN query \o <<Suffix.Drops>>
    ELSE IF StringsContains(queryLower, Kw.Pattern)
       \/ StringsContains(queryLower, Kw.Behavior)
    THEN query \o <<Suffix.Patterns>>
    ELSE query \o <<Suffix.Default>>

\* enhanceUserQuery that appends the suffix to the lower-cased query.
enhanceUserQueryLowered(query) ==
    LET queryLower == ToLower(query) IN
    IF StringsContains(queryLower, Kw.AllAvailableTools)
       \/ StringsContains(queryLower, Kw.UseAllTools)
    THEN queryLower \o <<Suffix.AllTools>>
    ELSE IF StringsContains(queryLower, Kw.Comprehensive)
       \/ StringsContains(queryLower, Kw.CompleteAnalysis)
    THEN queryLower \o <<Suffix.Comprehensive>>
    ELSE IF StringsContains(queryLower, Kw.Summary)
       \/ StringsContains(queryLower, Kw.Overview)
    THEN queryLower \o <<Suffix.Summary>>
    ELSE IF StringsContains(queryLower, Kw.Drop)
       \/ StringsContains(queryLower, Kw.Loss)
       \/ StringsContains(queryLower, Kw.Packet)
    THEN queryLower \o <<Suffix.Drops>>
    ELSE IF StringsContains(queryLower, Kw.Pattern)
       \/ StringsContains(queryLower, Kw.Behavior)
    THEN queryLower \o <<Suffix.Patterns>>
    ELSE IF StringsContains(queryLower, Kw.Connection)
       \/ StringsContains(queryLower, Kw.Network)
    THEN queryLower \o <<Suffix.Connections>>
    ELSE queryLower \o <<Suffix.Default>>

\* enhanceUserQuery: the query followed by the suffix of the first rule a
\* keyword of which occurs in the lower-cased query, or by the default suffix.
enhanceUserQuery(query) ==
    LET queryLower == ToLower(query) IN
    IF StringsContains(queryLower, Kw.AllAvailableTools)
       \/ StringsContains(queryLower, Kw.UseAllTools)
    THEN query \o <<Suffix.AllTools>>
    ELSE IF StringsContains(queryLower, Kw.Comprehensive)
       \/ StringsContains(queryLower, Kw.CompleteAnalysis)
    THEN query \o <<Suffix.Comprehensive>>
    ELSE IF StringsContains(queryLower, Kw.Summary)
       \/ StringsContains(queryLower, Kw.Overview)
    THEN query \o <<Suffix.Summary>>
    ELSE IF StringsContains(queryLower, Kw.Drop)
       \/ StringsContains(queryLower, Kw.Loss)
       \/ StringsContains(queryLower, Kw.Packet)
    THEN query \o <<Suffix.Drops>>
    ELSE IF StringsContains(queryLower, Kw.Pattern)
       \/ StringsContains(queryLower, Kw.Behavior)
    THEN query \o <<Suffix.Patterns>>
    ELSE IF StringsContains(queryLower, Kw.Connection)
       \/ StringsContains(queryLower, Kw.Network)
    THEN query \o <<Suffix.Connections>>
    ELSE query \o <<Suffix.Default>>

\* setupSystemContext: AddSystemMessage(systemPrompt) on the history msgs.
setupSystemContext(msgs) ==
    Append(msgs, ChatMessage("system", StrPtr(SystemPrompt), <<>>, ""))

\* What an operation of the analyst was called with, and the length of the
\* history it found.
Asked(op, query) == [op |-> op, query |-> query, before |-> Len(messages)]

\* NewContextualNetworkAnalyst: a new ConversationManager whose history holds
\* the system prompt.
InitAnalyst ==
    /\ messages = setupSystemContext(<<>>)
    /\ model = "gpt-4o-mini"
    /\ functions \in Registries
    /\ pc = "idle"
    /\ depth = 0
    /\ request = NoRequest
    /\ toolCalls = <<>>
    /\ results = <<>>
    /\ executorLog = <<>>
    /\ returned = <<>>
    /\ execErr = NilErr
    /\ ret = NoReturn
    /\ response = NoResponse
    /\ base = 0
    /\ cycles = <<>>
    /\ used = 0
    /\ ctx = "live"
    /\ reply = NoReply
    /\ asked = [op |-> "NewContextualNetworkAnalyst", query |-> <<>>, before |-> 0]
    /\ tool = NoTool
    /\ decl = NoDecl
    /\ mcpExecutor = DiscoveringExecutor(functions)
    /\ callers = NoCallers
    /\ sent = 0
    /\ ci = NoInfo
    /\ event = NoEvent
    /\ listing = NoListing
    /\ enhancedQuery = NoEnhanced
    /\ sessions = NoSessions
    /\ dispatched = NoDispatch

\* AnalyzeNetworkQuery up to the first suspension of ProcessMessage.
AnalyzeNetworkQuery(query, apiKeySet) ==
    /\ Len(messages) <= MaxAsked
    /\ ProcessMessage(enhanceUserQuery(query), apiKeySet)
    /\ asked' = Asked("AnalyzeNetworkQuery", query)
    /\ UNCHANGED <<ctx, reply, tool, decl, mcpExecutor, callers, sent, ci, event, listing, enhancedQuery, sessions, dispatched>>

\* The operations that go through AnalyzeNetworkQuery.
EnhancingOperations ==
    {"AnalyzeNetworkQuery", "AnalyzeProcess", "GetNetworkHealth", "GetComprehensiveAnalysis"}

\* What the running or last operation of the analyst returns for what
\* ProcessMessage returned: AnalyzeNetworkQuery wraps an error.
AnalystReturn ==
    IF asked.op \in EnhancingOperations /\ ret.kind = "err"
    THEN ReturnErr(<<"failed to analyze network query: ">> \o ret.err)
    ELSE ret

\* ContinueConversation that hands the message to the Query Enhancer.
ContinueConversationEnhancing(message, apiKeySet) ==
    /\ Len(messages) <= MaxAsked
    /\ ProcessMessage(enhanceUserQuery(message), apiKeySet)
    /\ asked' = Asked("ContinueConversation", message)
    /\ UNCHANGED <<ctx, reply, tool, decl, mcpExecutor, callers, sent, ci, event, listing,
                   enhancedQuery, sessions, dispatched>>

\* ContinueConversation up to the first suspension of ProcessMessage.
ContinueConversation(message, apiKeySet) ==
    /\ Len(messages) <= MaxAsked
    /\ ProcessMessage(message, apiKeySet)
    /\ asked' = Asked("ContinueConversation", message)
    /\ UNCHANGED <<ctx, reply, tool, decl, mcpExecutor, callers, sent, ci, event, listing, enhancedQuery, sessions, dispatched>>

\* StartNewConversation that clears the history and leaves it empty.
StartNewConversationBare ==
    /\ pc = "idle"
    /\ messages' = <<>>
    /\ ForgetTurn
    /\ used' = 0
    /\ asked' = Asked("StartNewConversation", <<>>)
    /\ UNCHANGED <<model, functions, pc, depth, request, toolCalls, results,
                   executorLog, returned, execErr, ctx, reply, tool, decl, mcpExecutor,
                   callers, sent, ci, event, listing, enhancedQuery, sessions, dispatched>>

\* StartNewConversation that does not clear the history.
StartNewConversationKeeping ==
    /\ pc = "idle"
    /\ messages' = setupSystemContext(messages)
    /\ ForgetTurn
    /\ used' = 0
    /\ asked' = Asked("StartNewConversation", <<>>)
    /\ UNCHANGED <<model, functions, pc, depth, request, toolCalls, results,
                   executorLog, returned, execErr, ctx, reply, tool, decl, mcpExecutor, callers, sent, ci, event, listing, enhancedQuery, sessions, dispatched>>

\* StartNewConversation: ClearConversation, then setupSystemContext.
StartNewConversation ==
    /\ pc = "idle"
    /\ messages' = setupSystemContext(<<>>)
    /\ ForgetTurn
    /\ used' = 0
    /\ asked' = Asked("StartNewConversation", <<>>)
    /\ UNCHANGED <<model, functions, pc, depth, request, toolCalls, results,
                   executorLog, returned, execErr, ctx, reply, tool, decl, mcpExecutor, callers, sent, ci, event, listing, enhancedQuery, sessions, dispatched>>

\* The follow-up messages the caller continues a conversation with.
FollowUps == {QuerySummaryUpper}

\* The responses of a completion API that requests one tool call at a time.
SingleCallResponses ==
    {r \in Responses : Len(r.Choices) > 0 => Len(r.Choices[1].ToolCalls) <= 1}

NextAnalyst ==
    \/ \E q \in Queries, k \in BOOLEAN : AnalyzeNetworkQuery(q, k)
    \/ \E q \in FollowUps, k \in BOOLEAN : ContinueConversation(q, k)
    \/ StartNewConversation
    \/ UNCHANGED surroundings /\ pc = "awaiting-model"
          /\ \E r \in SingleCallResponses : ReceiveResponse(r)
    \/ UNCHANGED surroundings
          /\ \E o \in ExecutorOutcomes, k \in BOOLEAN : handleFunctionCalls(o, k)

SpecAnalyst == InitAnalyst /\ [][NextAnalyst]_vars

(* ------------------ discovery of one tool descriptor ------------------ *)

\* A FunctionCallManager under construction, about to discover one tool.
InitSchema ==
    /\ messages = <<>>
    /\ model = "gpt-4o-mini"
    /\ functions = <<>>
    /\ pc = "idle"
    /\ depth = 0
    /\ request = NoRequest
    /\ toolCalls = <<>>
    /\ results = <<>>
    /\ executorLog = <<>>
    /\ returned = <<>>
    /\ execErr = NilErr
    /\ ret = NoReturn
    /\ response = NoResponse
    /\ base = 0
    /\ cycles = <<>>
    /\ used = 0
    /\ ctx = "live"
    /\ reply = NoReply
    /\ asked = NoCall
    /\ tool \in Descriptors
    /\ decl = NoDecl
    /\ mcpExecutor = [discovery |-> TRUE, registeredTools |-> [get_network_summary |-> tool]]
    /\ callers = NoCallers
    /\ sent = 0
    /\ ci = NoInfo
    /\ event = NoEvent
    /\ listing = NoListing
    /\ enhancedQuery = NoEnhanced
    /\ sessions = NoSessions
    /\ dispatched = NoDispatch

\* One iteration of the loop of discoverMCPTools: the tool is translated and
\* its declaration is appended to the catalog.
discoverMCPTools ==
    /\ decl.isNil
    /\ decl' = convertMCPToolToFunction(tool.Name, tool)
    /\ functions' = Append(functions, decl'.Name)
    /\ UNCHANGED <<messages, model, pc, depth, request, toolCalls, results, executorLog,
                   returned, execErr, ret, response, base, cycles, used,
                   ctx, reply, asked, tool, mcpExecutor, callers, sent, ci, event, listing, enhancedQuery, sessions, dispatched>>

SpecSchema == InitSchema /\ [][discoverMCPTools]_vars

(* ------------------- construction and the catalog ---------------------- *)

\* Before NewConversationManager has run: the executor is given, the manager
\* has no history, no model and no catalog yet.
InitCatalog ==
    /\ messages = <<>>
    /\ model = ""
    /\ functions = <<>>
    /\ pc = "constructing"
    /\ depth = 0
    /\ request = NoRequest
    /\ toolCalls = <<>>
    /\ results = <<>>
    /\ executorLog = <<>>
    /\ returned = <<>>
    /\ execErr = NilErr
    /\ ret = NoReturn
    /\ response = NoResponse
    /\ base = 0
    /\ cycles = <<>>
    /\ used = 0
    /\ ctx = "live"
    /\ reply = NoReply
    /\ asked = NoCall
    /\ tool = NoTool
    /\ decl = NoDecl
    /\ mcpExecutor \in Executors
    /\ callers = NoCallers
    /\ sent = 0
    /\ ci = NoInfo
    /\ event = NoEvent
    /\ listing = NoListing
    /\ enhancedQuery = NoEnhanced
    /\ sessions = NoSessions
    /\ dispatched = NoDispatch

\* NewConversationManager: NewFunctionCallManager over the executor, empty
\* history, default model.
NewConversationManager ==
    /\ pc = "constructing"
    /\ functions' \in NewFunctionCallManager(mcpExecutor)
    /\ messages' = <<>>
    /\ model' = "gpt-4o-mini"
    /\ pc' = "idle"
    /\ UNCHANGED <<depth, request, toolCalls, results, executorLog, returned, execErr,
                   ret, response, base, cycles, used>>

\* Construction, then every operation of the session: the operations of the
\* ConversationManager and StartNewConversation of the analyst that owns it.
\* ProcessMessage is called on a history shorter than MaxMessages.
NextCatalog ==
    \/ UNCHANGED surroundings /\ NewConversationManager
    \/ UNCHANGED surroundings /\ \E m \in Models : SetModel(m)
    \/ UNCHANGED surroundings /\ AddSystemMessage(SystemPrompt)
    \/ UNCHANGED surroundings /\ ClearConversation
    \/ StartNewConversation
    \/ UNCHANGED surroundings /\ Len(messages) < MaxMessages
          /\ \E q \in UserQueries, k \in BOOLEAN : ProcessMessage(q, k)
    \/ UNCHANGED surroundings /\ pc = "awaiting-model"
          /\ \E r \in SingleCallResponses : ReceiveResponse(r)
    \/ UNCHANGED surroundings
          /\ \E o \in ExecutorOutcomes, k \in BOOLEAN : handleFunctionCalls(o, k)

SpecCatalog == InitCatalog /\ [][NextCatalog]_vars

(* ------------- two callers on one ConversationManager ------------------ *)

\* The goroutines that call ProcessMessage on the same manager, and the
\* message each of them sends.
Callers == {"first", "second"}

\* A goroutine outside ProcessMessage.  Inside, pc is "append" between the
\* read of cm.messages and the write of the appended slice of one
\* "cm.messages = append(cm.messages, m)" (snapshot is the slice read, pending
\* the message m, then what follows the statement), "awaiting-model" while
\* its completion request is in flight, "awaiting-tools" while its batch is
\* executed.  base and appended record the length of the history at the call
\* and the messages the goroutine has appended since.
IdleCaller ==
    [pc |-> "idle", snapshot |-> <<>>, pending |-> <<>>, then |-> "none",
     request |-> NoRequest, toolCalls |-> <<>>, cycles |-> 0, ret |-> NoReturn,
     base |-> 0, appended |-> <<>>]

InitConcurrent ==
    /\ messages = <<>>
    /\ model = "gpt-4o-mini"
    /\ functions \in Registries
    /\ pc = "idle"
    /\ depth = 0
    /\ request = NoRequest
    /\ toolCalls = <<>>
    /\ results = <<>>
    /\ executorLog = <<>>
    /\ returned = <<>>
    /\ execErr = NilErr
    /\ ret = NoReturn
    /\ response = NoResponse
    /\ base = 0
    /\ cycles = <<>>
    /\ used = 0
    /\ ctx = "live"
    /\ reply = NoReply
    /\ asked = NoCall
    /\ tool = NoTool
    /\ decl = NoDecl
    /\ mcpExecutor = DiscoveringExecutor(functions)
    /\ callers = [c \in Callers |-> IdleCaller]
    /\ sent = 0
    /\ ci = NoInfo
    /\ event = NoEvent
    /\ listing = NoListing
    /\ enhancedQuery = NoEnhanced
    /\ sessions = NoSessions
    /\ dispatched = NoDispatch

\* What a goroutine leaves alone: the manager has no lock, a goroutine acts
\* on cm.messages and on its own frame only.
CallerFrame ==
    UNCHANGED <<model, functions, pc, depth, request, toolCalls, results, executorLog,
                returned, execErr, ret, response, base, cycles, used,
                ctx, reply, asked, tool, decl, mcpExecutor, sent, ci, event, listing, enhancedQuery, sessions, dispatched>>

\* ProcessMessage called by goroutine c, up to the read of cm.messages in
\* AddUserMessage.
CallerProcessMessage(c) ==
    /\ callers[c].pc = "idle"
    /\ Len(messages) < MaxMessages
    /\ callers' = [callers EXCEPT ![c] =
          [IdleCaller EXCEPT !.pc = "append", !.snapshot = messages,
              !.pending =
                  <<ChatMessage("user",
                                StrPtr(IF c = "first" THEN <<"summarize network activity">>
                                       ELSE <<"list dropped packets">>),
                                <<>>, "")>>,
              !.then = "send", !.base = Len(messages)]]
    /\ UNCHANGED messages
    /\ CallerFrame

\* The write of an append by goroutine c and the code that follows it up to
\* the next suspension or read of cm.messages: sendChatRequest after a user
\* or tool message, the look at the choice after an assistant message.
CallerAppend(c, apiKeySet) ==
    LET me == callers[c]
        m == me.pending[1]
        kind == ChoiceKind(m)
        stored == [me EXCEPT !.snapshot = <<>>, !.pending = <<>>, !.then = "none",
                             !.appended = Append(me.appended, m)]
    IN
    /\ me.pc = "append"
    /\ messages' = Append(me.snapshot, m)
    /\ callers' = [callers EXCEPT ![c] =
          IF me.then = "send"
          THEN IF apiKeySet
               THEN [stored EXCEPT !.pc = "awaiting-model",
                                   !.request = ChatRequest(messages')]
               ELSE [stored EXCEPT !.pc = "idle",
                        !.ret = ReturnErr(<<IF me.cycles = 0
                                            THEN "failed to send chat request: "
                                            ELSE "failed to get final response: ",
                                            "OPENAI_API_KEY not set">>)]
          ELSE IF kind = "calls"
               THEN [stored EXCEPT !.pc = "awaiting-tools", !.toolCalls = m.ToolCalls,
                                   !.cycles = me.cycles + 1]
               ELSE [stored EXCEPT !.pc = "idle",
                        !.ret = IF kind = "text" THEN ReturnText(m.Content.text)
                                ELSE ReturnErr(<<IF me.cycles = 0
                                                 THEN "no content in response"
                                                 ELSE "no content in final response">>)]]
    /\ CallerFrame

\* sendChatRequest returns r to goroutine c: an error or a response without
\* choice ends its call, otherwise it reads cm.messages to append the choice.
CallerReceiveResponse(c, r) ==
    LET me == callers[c] IN
    /\ me.pc = "awaiting-model"
    /\ (Len(r.Choices) > 0 /\ Len(r.Choices[1].ToolCalls) > 0) => me.cycles < MaxCalls - 1
    /\ callers' = [callers EXCEPT ![c] =
          IF ~r.err.isNil
          THEN [me EXCEPT !.pc = "idle", !.request = NoRequest,
                   !.ret = ReturnErr(<<IF me.cycles = 0 THEN "failed to send chat request: "
                                       ELSE "failed to get final response: ">> \o r.err.msg)]
          ELSE IF Len(r.Choices) = 0
          THEN [me EXCEPT !.pc = "idle", !.request = NoRequest,
                   !.ret = ReturnErr(<<IF me.cycles = 0 THEN "no response from OpenAI"
                                       ELSE "no final response from OpenAI">>)]
          ELSE [me EXCEPT !.pc = "append", !.request = NoRequest,
                   !.snapshot = messages, !.pending = <<r.Choices[1]>>,
                   !.then = "dispatch"]]
    /\ UNCHANGED messages
    /\ CallerFrame

\* handleFunctionCalls of goroutine c for a batch of one call: ExecuteFunctions
\* returns the result, the goroutine reads cm.messages to append it.
CallerHandleFunctionCalls(c, outcome) ==
    LET me == callers[c]
        out == ExecuteFunctions(<<ExecuteFunctionsIter(me.toolCalls[1], outcome)>>)
    IN
    /\ me.pc = "awaiting-tools"
    /\ Len(me.toolCalls) = 1
    /\ callers' = [callers EXCEPT ![c] =
          [me EXCEPT !.pc = "append", !.snapshot = messages,
                     !.pending = ResultMessages(out.results), !.then = "send",
                     !.toolCalls = <<>>]]
    /\ UNCHANGED messages
    /\ CallerFrame

\* The responses the two goroutines get: a failure, a text, or one call of
\* a tool with well-formed arguments.
CallerResponses ==
    { r \in SingleCallResponses :
        Len(r.Choices) > 0 =>
          LET m == r.Choices[1] IN
          IF Len(m.ToolCalls) = 0 THEN ~m.Content.isNil
          ELSE /\ m.Content.isNil
               /\ m.ToolCalls[1].Name = "get_summary"
               /\ JSONUnmarshalArgs(m.ToolCalls[1].Arguments).err.isNil }

\* Two goroutines call ProcessMessage on the same manager, each while the
\* history is shorter than MaxMessages.
NextConcurrent ==
    \/ \E c \in Callers : CallerProcessMessage(c)
    \/ \E c \in Callers, k \in BOOLEAN : CallerAppend(c, k)
    \/ \E c \in Callers, r \in CallerResponses : CallerReceiveResponse(c, r)
    \/ \E c \in Callers, o \in ExecutorOutcomes : CallerHandleFunctionCalls(c, o)

SpecConcurrent == InitConcurrent /\ [][NextConcurrent]_vars

(* ------------- the call/continue cycles of one turn -------------------- *)

\* ProcessMessage on a history shorter than MaxMessages; sent counts the
\* request it sends.
StartTurn ==
    /\ Len(messages) < MaxMessages
    /\ \E q \in UserQueries, k \in BOOLEAN : ProcessMessage(q, k)
    /\ sent' = IF request'.sent THEN 1 ELSE 0
    /\ UNCHANGED <<ctx, reply, asked, tool, decl, mcpExecutor, callers, ci, event, listing, enhancedQuery, sessions, dispatched>>

\* ClearConversation between two turns.
EndConversation ==
    /\ ClearConversation
    /\ sent' = 0
    /\ UNCHANGED <<ctx, reply, asked, tool, decl, mcpExecutor, callers, ci, event, listing, enhancedQuery, sessions, dispatched>>

\* http.DefaultClient.Do returns: the completion request in flight resolves.
CompletionResolves ==
    /\ pc = "awaiting-model"
    /\ \E r \in Responses : ReceiveResponse(r)
    /\ UNCHANGED surroundings

\* RunSingleCommand returns for the next call of the batch; after the last
\* one sent counts the request handleFunctionCalls sends.
BatchStep ==
    /\ \E o \in ExecutorOutcomes, k \in BOOLEAN : handleFunctionCalls(o, k)
    /\ sent' = IF request'.sent THEN sent + 1 ELSE sent
    /\ UNCHANGED <<ctx, reply, asked, tool, decl, mcpExecutor, callers, ci, event, listing, enhancedQuery, sessions, dispatched>>

NextCycles == StartTurn \/ EndConversation \/ CompletionResolves \/ BatchStep

\* A request in flight resolves and an invoked tool returns: the calls
\* ProcessMessage blocks in come back.
SpecCycles ==
    Init /\ [][NextCycles]_vars /\ WF_vars(CompletionResolves) /\ WF_vars(BatchStep)

(* ------------- netclient: ConnectionInfo.ToConnectionEvent ------------- *)

\* A destination is the sequence of its characters.
DestinationChars == {"[", "]", ":", "5", "h"}

\* Destinations of the server's output and of the package's tests that are
\* longer than MaxDestination.
LongDestinations ==
    { <<"1", "0", ".", "0", ".", "0", ".", "1", ":", "8", "0">>,
      <<"[", ":", ":", "1", "]", ":", "8", "0", "8", "0">>,
      <<"[", ":", ":", "1", "]">>,
      <<"[", ":", ":", "1", "]", ":", "h", "t", "t", "p">>,
      <<"h", "o", "s", "t", ":", "6", "5", "5", "3", "5">>,
      <<"h", "o", "s", "t", ":", "6", "5", "5", "3", "6">>,
      <<"h", "o", "s", "t", ":", "9", "9", "9", "9", "9">>,
      <<"h", "o", "s", "t", ":", "-", "1">>,
      <<"h", "o", "s", "t", ":", "+", "8", "0">>,
      <<"h", "o", "s", "t", ":", "0", "0", "0", "0", "0", "8", "0">>,
      <<"a", ":", "b", ":", "c", ":", "8", "0", "8", "0">> }

Destinations ==
    UNION { [1..n -> DestinationChars] : n \in 0..MaxDestination } \cup LongDestinations

\* The records the server's output is decoded into; Timestamp in whole
\* seconds.
ConnectionInfos ==
    { [isNil |-> FALSE, PID |-> 1234, Command |-> "curl", Destination |-> d,
       Protocol |-> "TCP", ReturnCode |-> rc, Timestamp |-> 2] :
        d \in Destinations, rc \in {0, -111} }

HasPrefix(str, prefix) ==
    Len(str) >= Len(prefix) /\ SubSeq(str, 1, Len(prefix)) = prefix

\* strings.Index and strings.LastIndex for a one-character substr, as the Go
\* index (from 0), -1 when str does not hold it.
Index(str, char) ==
    IF \E i \in DOMAIN str : str[i] = char
    THEN (CHOOSE i \in DOMAIN str : str[i] = char /\ \A j \in 1..(i - 1) : str[j] # char) - 1
    ELSE -1

LastIndex(str, char) ==
    IF \E i \in DOMAIN str : str[i] = char
    THEN (CHOOSE i \in DOMAIN str : str[i] = char /\ \A j \in (i + 1)..Len(str) : str[j] # char) - 1
    ELSE -1

\* str[from:] with the Go index from.
SliceFrom(str, from) == SubSeq(str, from + 1, Len(str))

\* str[:to] with the Go index to.
SliceTo(str, to) == SubSeq(str, 1, to)

Digits == {"0", "1", "2", "3", "4", "5", "6", "7", "8", "9"}

DigitValue(char) ==
    CASE char = "0" -> 0 [] char = "1" -> 1 [] char = "2" -> 2 [] char = "3" -> 3
      [] char = "4" -> 4 [] char = "5" -> 5 [] char = "6" -> 6 [] char = "7" -> 7
      [] char = "8" -> 8 [] char = "9" -> 9

RECURSIVE DecimalValue(_)
DecimalValue(str) ==
    IF str = <<>> THEN 0
    ELSE 10 * DecimalValue(SubSeq(str, 1, Len(str) - 1)) + DigitValue(str[Len(str)])

\* ParseUint that cuts the value to bitSize bits instead of failing.
ParseUintWrapping(str, bitSize) ==
    IF str = <<>> \/ \E i \in DOMAIN str : str[i] \notin Digits
    THEN [err |-> Errorf(<<"invalid syntax">>), value |-> 0]
    ELSE [err |-> NilErr, value |-> DecimalValue(str) % (2 ^ bitSize)]

\* strconv.ParseUint(str, 10, bitSize): an empty text, a sign or any other
\* character that is no digit is a syntax error, a value of more than bitSize
\* bits a range error.
ParseUint(str, bitSize) ==
    IF str = <<>> \/ \E i \in DOMAIN str : str[i] \notin Digits
    THEN [err |-> Errorf(<<"invalid syntax">>), value |-> 0]
    ELSE IF DecimalValue(str) > 2 ^ bitSize - 1
    THEN [err |-> Errorf(<<"value out of range">>), value |-> 2 ^ bitSize - 1]
    ELSE [err |-> NilErr, value |-> DecimalValue(str)]

parseDestination(destination) ==
    IF destination = <<>> THEN [ip |-> <<>>, port |-> 0]
    ELSE
    LET closeBracket == Index(destination, "]")
        lastColon == LastIndex(destination, ":")
    IN IF HasPrefix(destination, <<"[">>) /\ closeBracket # -1
       THEN LET ip == SliceTo(destination, closeBracket + 1)
                remaining == SliceFrom(destination, closeBracket + 1)
                parsed == ParseUint(SliceFrom(remaining, 1), 16)
            IN IF HasPrefix(remaining, <<":">>) /\ parsed.err.isNil
               THEN [ip |-> ip, port |-> parsed.value]
               ELSE [ip |-> ip, port |-> 0]
       ELSE IF lastColon # -1
       THEN LET ip == SliceTo(destination, lastColon)
                parsed == ParseUint(SliceFrom(destination, lastColon + 1), 16)
            IN IF parsed.err.isNil
               THEN [ip |-> ip, port |-> parsed.value]
               ELSE [ip |-> ip, port |-> 0]
       ELSE [ip |-> destination, port |-> 0]

\* ConnectionInfo.ToConnectionEvent; the fields the conversion does not set
\* keep their zero value.
ToConnectionEvent(info) ==
    LET dest == IF info.Destination # <<>> THEN parseDestination(info.Destination)
                ELSE [ip |-> <<>>, port |-> 0]
    IN [isNil |-> FALSE, PID |-> info.PID, TimestampNS |-> info.Timestamp * 1000000000,
        ReturnCode |-> info.ReturnCode, Command |-> info.Command,
        DestinationIP |-> dest.ip, DestinationPort |-> dest.port,
        Destination |-> info.Destination, AddressFamily |-> 0,
        Protocol |-> info.Protocol, SocketType |-> "", WallTime |-> info.Timestamp]

\* A connection record decoded from the server's output, about to be
\* converted.
InitConversion ==
    /\ messages = <<>>
    /\ model = "gpt-4o-mini"
    /\ functions = <<>>
    /\ pc = "idle"
    /\ depth = 0
    /\ request = NoRequest
    /\ toolCalls = <<>>
    /\ results = <<>>
    /\ executorLog = <<>>
    /\ returned = <<>>
    /\ execErr = NilErr
    /\ ret = NoReturn
    /\ response = NoResponse
    /\ base = 0
    /\ cycles = <<>>
    /\ used = 0
    /\ ctx = "live"
    /\ reply = NoReply
    /\ asked = NoCall
    /\ tool = NoTool
    /\ decl = NoDecl
    /\ mcpExecutor = DiscoveringExecutor(functions)
    /\ callers = NoCallers
    /\ sent = 0
    /\ ci \in ConnectionInfos
    /\ event = NoEvent
    /\ listing = NoListing
    /\ enhancedQuery = NoEnhanced
    /\ sessions = NoSessions
    /\ dispatched = NoDispatch

\* ToConnectionEvent is called on the record.
Convert ==
    /\ event.isNil
    /\ event' = ToConnectionEvent(ci)
    /\ UNCHANGED <<engine, ctx, reply, asked, tool, decl, mcpExecutor, callers, sent, ci, listing, enhancedQuery, sessions, dispatched>>

SpecConversion == InitConversion /\ [][Convert]_vars

(* ------------- utils: FormatConnectionEvents --------------------------- *)

\* makeEvent of the package's tests: WallTime is the instant TimestampNS
\* nanoseconds after the epoch.  Two of the events have one timestamp.
makeEvent(pid, cmd, ip, port, proto, ts) ==
    [PID |-> pid, Command |-> cmd, DestinationIP |-> ip, DestinationPort |-> port,
     Protocol |-> proto, TimestampNS |-> ts, WallTime |-> ts]

ListedEvents ==
    { makeEvent(1, "curl", "1.2.3.4", 80, "tcp", 200),
      makeEvent(2, "wget", "5.6.7.8", 443, "tcp", 100),
      makeEvent(3, "dig", "9.9.9.9", 53, "udp", 200) }

\* The lines of the text FormatConnectionEvents returns.
NoEventsLine == [kind |-> "No connection events found", n |-> 0, clock |-> 0,
                 ip |-> "", port |-> 0, proto |-> "", cmd |-> ""]
HeaderLine(total) == [kind |-> "Recent connection events (%d total):", n |-> total,
                      clock |-> 0, ip |-> "", port |-> 0, proto |-> "", cmd |-> ""]
MoreLine(more) == [kind |-> "  ... and %d more events", n |-> more, clock |-> 0,
                   ip |-> "", port |-> 0, proto |-> "", cmd |-> ""]

\* One event as "  %s | %s:%d | %s | %s": WallTime.Format("15:04:05") keeps
\* the time of day, in whole seconds.
EventLine(e) ==
    [kind |-> "  %s | %s:%d | %s | %s", n |-> 0,
     clock |-> (e.WallTime \div 1000000000) % 86400,
     ip |-> e.DestinationIP, port |-> e.DestinationPort,
     proto |-> e.Protocol, cmd |-> e.Command]

\* The orders sort.Slice can leave the slice in under the comparison
\* events[i].TimestampNS > events[j].TimestampNS: the sort is not stable, so
\* events of one timestamp come in any order.
SortSlice(events) ==
    { [i \in DOMAIN events |-> events[p[i]]] :
        p \in { q \in [DOMAIN events -> DOMAIN events] :
                  /\ \A i, j \in DOMAIN events : i # j => q[i] # q[j]
                  /\ \A i, j \in DOMAIN events :
                        i < j => events[q[i]].TimestampNS >= events[q[j]].TimestampNS } }

\* The text built from the sorted slice.
FormatSorted(events, maxEvents) ==
    LET limit == IF Len(events) < maxEvents THEN Len(events) ELSE maxEvents
    IN <<HeaderLine(Len(events))>>
       \o [i \in 1..limit |-> EventLine(events[i])]
       \o (IF Len(events) > maxEvents
           THEN <<MoreLine(Len(events) - maxEvents)>> ELSE <<>>)

\* A list of events about to be formatted.
InitListing ==
    /\ messages = <<>>
    /\ model = "gpt-4o-mini"
    /\ functions = <<>>
    /\ pc = "idle"
    /\ depth = 0
    /\ request = NoRequest
    /\ toolCalls = <<>>
    /\ results = <<>>
    /\ executorLog = <<>>
    /\ returned = <<>>
    /\ execErr = NilErr
    /\ ret = NoReturn
    /\ response = NoResponse
    /\ base = 0
    /\ cycles = <<>>
    /\ used = 0
    /\ ctx = "live"
    /\ reply = NoReply
    /\ asked = NoCall
    /\ tool = NoTool
    /\ decl = NoDecl
    /\ mcpExecutor = DiscoveringExecutor(functions)
    /\ callers = NoCallers
    /\ sent = 0
    /\ ci = NoInfo
    /\ event = NoEvent
    /\ \E given \in UNION { [1..n -> ListedEvents] : n \in 0..MaxListed },
          maxEvents \in {-1, 0, 1, 2, 10} :
          listing = [called |-> FALSE, given |-> given, events |-> given,
                     maxEvents |-> maxEvents, text |-> <<>>]
    /\ enhancedQuery = NoEnhanced
    /\ sessions = NoSessions
    /\ dispatched = NoDispatch

\* FormatConnectionEvents(events, maxEvents); the caller's slice is sorted in
\* place.
FormatConnectionEvents ==
    /\ ~listing.called
    /\ IF Len(listing.events) = 0
       THEN listing' = [listing EXCEPT !.called = TRUE, !.text = <<NoEventsLine>>]
       ELSE \E sorted \in SortSlice(listing.events) :
               listing' = [listing EXCEPT !.called = TRUE, !.events = sorted,
                                          !.text = FormatSorted(sorted, listing.maxEvents)]
    /\ UNCHANGED <<engine, ctx, reply, asked, tool, decl, mcpExecutor, callers, sent, ci, event, enhancedQuery, sessions, dispatched>>

SpecListing == InitListing /\ [][FormatConnectionEvents]_vars

(* ------------- the Query Enhancer on its own --------------------------- *)

\* The words of ws separated by one space.
RECURSIVE JoinWords(_)
JoinWords(ws) ==
    IF ws = <<>> THEN <<>>
    ELSE IF Len(ws) = 1 THEN ws[1]
    ELSE ws[1] \o <<" ">> \o JoinWords(Tail(ws))

\* A query in capitals.
Capitals(str) ==
    LET UpperCaseLetters ==
            {"A", "B", "C", "D", "E", "F", "G", "H", "I", "J", "K", "L", "M", "N", "O",
             "P", "Q", "R", "S", "T", "U", "V", "W", "X", "Y", "Z"}
    IN [i \in 1..Len(str) |->
           IF \E u \in UpperCaseLetters : ToLowerChar(u) = str[i]
           THEN CHOOSE u \in UpperCaseLetters : ToLowerChar(u) = str[i]
           ELSE str[i]]

\* The queries of a caller: up to MaxWords words, in small letters or in
\* capitals; a word is a keyword of the enhancer or a word that holds none.
WordQueries ==
    LET QueryWords ==
            { Kw[k] : k \in DOMAIN Kw } \cup { <<"h", "e", "l", "l", "o">> }
        lower == { JoinWords(ws) : ws \in UNION { [1..n -> QueryWords] : n \in 0..MaxWords } }
    IN lower \cup { Capitals(q) : q \in lower }

\* AnalyzeNetworkQuery entered with a query, before its first statement.
InitEnhancer ==
    /\ messages = setupSystemContext(<<>>)
    /\ model = "gpt-4o-mini"
    /\ functions = <<>>
    /\ pc = "idle"
    /\ depth = 0
    /\ request = NoRequest
    /\ toolCalls = <<>>
    /\ results = <<>>
    /\ executorLog = <<>>
    /\ returned = <<>>
    /\ execErr = NilErr
    /\ ret = NoReturn
    /\ response = NoResponse
    /\ base = 0
    /\ cycles = <<>>
    /\ used = 0
    /\ ctx = "live"
    /\ reply = NoReply
    /\ \E q \in WordQueries : asked = Asked("AnalyzeNetworkQuery", q)
    /\ tool = NoTool
    /\ decl = NoDecl
    /\ mcpExecutor = DiscoveringExecutor(functions)
    /\ callers = NoCallers
    /\ sent = 0
    /\ ci = NoInfo
    /\ event = NoEvent
    /\ listing = NoListing
    /\ enhancedQuery = NoEnhanced
    /\ sessions = NoSessions
    /\ dispatched = NoDispatch

\* enhancedQuery := cna.enhanceUserQuery(query)
EnhanceQuery ==
    /\ enhancedQuery.isNil
    /\ enhancedQuery' = StrPtr(enhanceUserQuery(asked.query))
    /\ UNCHANGED <<engine, ctx, reply, asked, tool, decl, mcpExecutor, callers, sent, ci,
                   event, listing, sessions, dispatched>>

SpecEnhancer == InitEnhancer /\ [][EnhanceQuery]_vars

(* ------------- every operation of the analyst -------------------------- *)

\* The pieces of the format strings of AnalyzeProcess, GetNetworkHealth and
\* GetComprehensiveAnalysis, cut at their verbs.
\* A number as %d prints it.
RECURSIVE FormatInt(_)
FormatInt(n) ==
    LET DigitChar(d) == CHOOSE c \in Digits : DigitValue(c) = d
    IN IF n < 0 THEN <<"-">> \o FormatInt(0 - n)
       ELSE IF n < 10 THEN <<DigitChar(n)>>
       ELSE FormatInt(n \div 10) \o <<DigitChar(n % 10)>>

\* The query AnalyzeProcess builds.
AnalyzeProcessQuery(processName, pid, duration) ==
    LET FmtProcessName1 ==
            <<"P", "l", "e", "a", "s", "e", " ", "a", "n", "a", "l", "y", "z", "e", " ", "t", "h",
              "e", " ", "n", "e", "t", "w", "o", "r", "k", " ", "b", "e", "h", "a", "v", "i", "o",
              "r", " ", "o", "f", " ", "p", "r", "o", "c", "e", "s", "s", " ", "'">>
        FmtProcessName2 ==
            <<"'", " ", "o", "v", "e", "r", " ", "t", "h", "e", " ", "l", "a", "s", "t", " ">>
        FmtProcessName3 ==
            <<" ", "s", "e", "c", "o", "n", "d", "s", ".", " ", "I", " ", "w", "a", "n", "t", " ",
              "t", "o", " ", "u", "n", "d", "e", "r", "s", "t", "a", "n", "d", " ", "i", "t", "s",
              " ", "c", "o", "n", "n", "e", "c", "t", "i", "o", "n", " ", "p", "a", "t", "t", "e",
              "r", "n", "s", ",", " ", "a", "n", "y", " ", "i", "s", "s", "u", "e", "s", ",", " ",
              "a", "n", "d", " ", "o", "p", "t", "i", "m", "i", "z", "a", "t", "i", "o", "n", " ",
              "o", "p", "p", "o", "r", "t", "u", "n", "i", "t", "i", "e", "s", ".">>
        FmtProcessID1 ==
            <<"P", "l", "e", "a", "s", "e", " ", "a", "n", "a", "l", "y", "z", "e", " ", "t", "h",
              "e", " ", "n", "e", "t", "w", "o", "r", "k", " ", "b", "e", "h", "a", "v", "i", "o",
              "r", " ", "o", "f", " ", "p", "r", "o", "c", "e", "s", "s", " ", "I", "D", " ">>
        FmtProcessID2 ==
            <<" ", "o", "v", "e", "r", " ", "t", "h", "e", " ", "l", "a", "s", "t", " ">>
        FmtProcessID3 ==
            <<" ", "s", "e", "c", "o", "n", "d", "s", ".", " ", "I", " ", "w", "a", "n", "t", " ",
              "t", "o", " ", "u", "n", "d", "e", "r", "s", "t", "a", "n", "d", " ", "i", "t", "s",
              " ", "c", "o", "n", "n", "e", "c", "t", "i", "o", "n", " ", "p", "a", "t", "t", "e",
              "r", "n", "s", ",", " ", "a", "n", "y", " ", "i", "s", "s", "u", "e", "s", ",", " ",
              "a", "n", "d", " ", "o", "p", "t", "i", "m", "i", "z", "a", "t", "i", "o", "n", " ",
              "o", "p", "p", "o", "r", "t", "u", "n", "i", "t", "i", "e", "s", ".">>
        FmtOverall1 ==
            <<"P", "l", "e", "a", "s", "e", " ", "a", "n", "a", "l", "y", "z", "e", " ", "o", "v",
              "e", "r", "a", "l", "l", " ", "n", "e", "t", "w", "o", "r", "k", " ", "a", "c", "t",
              "i", "v", "i", "t", "y", " ", "o", "v", "e", "r", " ", "t", "h", "e", " ", "l", "a",
              "s", "t", " ">>
        FmtOverall2 ==
            <<" ", "s", "e", "c", "o", "n", "d", "s", ".", " ", "S", "h", "o", "w", " ", "m", "e",
              " ", "c", "o", "n", "n", "e", "c", "t", "i", "o", "n", " ", "p", "a", "t", "t", "e",
              "r", "n", "s", ",", " ", "a", "n", "y", " ", "i", "s", "s", "u", "e", "s", ",", " ",
              "a", "n", "d", " ", "r", "e", "c", "o", "m", "m", "e", "n", "d", "a", "t", "i", "o",
              "n", "s", ".">>
    IN IF processName # <<>>
       THEN FmtProcessName1 \o processName \o FmtProcessName2 \o FormatInt(duration)
            \o FmtProcessName3
       ELSE IF pid > 0
       THEN FmtProcessID1 \o FormatInt(pid) \o FmtProcessID2 \o FormatInt(duration)
            \o FmtProcessID3
       ELSE FmtOverall1 \o FormatInt(duration) \o FmtOverall2

\* The query GetNetworkHealth builds.
GetNetworkHealthQuery(duration) ==
    LET FmtHealth1 ==
            <<"P", "l", "e", "a", "s", "e", " ", "p", "r", "o", "v", "i", "d", "e", " ", "a", " ",
              "c", "o", "m", "p", "r", "e", "h", "e", "n", "s", "i", "v", "e", " ", "n", "e", "t",
              "w", "o", "r", "k", " ", "h", "e", "a", "l", "t", "h", " ", "a", "s", "s", "e", "s",
              "s", "m", "e", "n", "t", " ", "o", "v", "e", "r", " ", "t", "h", "e", " ", "l", "a",
              "s", "t", " ">>
        FmtHealth2 ==
            <<" ", "s", "e", "c", "o", "n", "d", "s", ".", " ", "I", "n", "c", "l", "u", "d", "e",
              ":", "\n", "\n", "1", ".", " ", "C", "o", "n", "n", "e", "c", "t", "i", "o", "n",
              " ", "s", "u", "m", "m", "a", "r", "y", " ", "a", "n", "d", " ", "p", "a", "t", "t",
              "e", "r", "n", "s", "\n", "2", ".", " ", "A", "n", "y", " ", "p", "a", "c", "k", "e",
              "t", " ", "d", "r", "o", "p", "s", " ", "o", "r", " ", "c", "o", "n", "n", "e", "c",
              "t", "i", "v", "i", "t", "y", " ", "i", "s", "s", "u", "e", "s", " ", " ", "\n", "3",
              ".", " ", "O", "v", "e", "r", "a", "l", "l", " ", "n", "e", "t", "w", "o", "r", "k",
              " ", "p", "e", "r", "f", "o", "r", "m", "a", "n", "c", "e", " ", "i", "n", "d", "i",
              "c", "a", "t", "o", "r", "s", "\n", "4", ".", " ", "S", "p", "e", "c", "i", "f", "i",
              "c", " ", "r", "e", "c", "o", "m", "m", "e", "n", "d", "a", "t", "i", "o", "n", "s",
              " ", "f", "o", "r", " ", "i", "m", "p", "r", "o", "v", "e", "m", "e", "n", "t", "\n",
              "5", ".", " ", "A", "n", "y", " ", "s", "e", "c", "u", "r", "i", "t", "y", " ", "c",
              "o", "n", "c", "e", "r", "n", "s", " ", "o", "r", " ", "a", "n", "o", "m", "a", "l",
              "i", "e", "s", "\n", "\n", "U", "s", "e", " ", "a", "l", "l", " ", "r", "e", "l",
              "e", "v", "a", "n", "t", " ", "t", "o", "o", "l", "s", " ", "t", "o", " ", "g", "a",
              "t", "h", "e", "r", " ", "c", "o", "m", "p", "l", "e", "t", "e", " ", "d", "a", "t",
              "a", " ", "f", "o", "r", " ", "t", "h", "i", "s", " ", "a", "n", "a", "l", "y", "s",
              "i", "s", ".">>
    IN FmtHealth1 \o FormatInt(duration) \o FmtHealth2

\* The query GetComprehensiveAnalysis builds.
GetComprehensiveAnalysisQuery(duration) ==
    LET FmtComprehensive1 ==
            <<"C", "O", "M", "P", "R", "E", "H", "E", "N", "S", "I", "V", "E", " ", "A", "N", "A",
              "L", "Y", "S", "I", "S", " ", "R", "E", "Q", "U", "E", "S", "T", ":", " ", "A", "n",
              "a", "l", "y", "z", "e", " ", "n", "e", "t", "w", "o", "r", "k", " ", "a", "c", "t",
              "i", "v", "i", "t", "y", " ", "o", "v", "e", "r", " ", "t", "h", "e", " ", "l", "a",
              "s", "t", " ">>
        FmtComprehensive2 ==
            <<" ", "s", "e", "c", "o", "n", "d", "s", " ", "u", "s", "i", "n", "g", " ", "A", "L",
              "L", " ", "a", "v", "a", "i", "l", "a", "b", "l", "e", " ", "t", "o", "o", "l", "s",
              ".", "\n", "\n", "R", "E", "Q", "U", "I", "R", "E", "D", ":", " ", "Y", "o", "u",
              " ", "M", "U", "S", "T", " ", "c", "a", "l", "l", " ", "t", "h", "e", "s", "e", " ",
              "t", "o", "o", "l", "s", " ", "i", "n", " ", "t", "h", "i", "s", " ", "e", "x", "a",
              "c", "t", " ", "o", "r", "d", "e", "r", ":", "\n", "1", ".", " ", "g", "e", "t", "_",
              "n", "e", "t", "w", "o", "r", "k", "_", "s", "u", "m", "m", "a", "r", "y", " ", "(",
              "f", "o", "r", " ", "o", "v", "e", "r", "a", "l", "l", " ", "c", "o", "n", "n", "e",
              "c", "t", "i", "o", "n", " ", "s", "t", "a", "t", "i", "s", "t", "i", "c", "s", ")",
              "\n", "2", ".", " ", "l", "i", "s", "t", "_", "c", "o", "n", "n", "e", "c", "t", "i",
              "o", "n", "s", " ", "(", "f", "o", "r", " ", "d", "e", "t", "a", "i", "l", "e", "d",
              " ", "c", "o", "n", "n", "e", "c", "t", "i", "o", "n", " ", "e", "v", "e", "n", "t",
              "s", ")", " ", " ", "\n", "3", ".", " ", "g", "e", "t", "_", "p", "a", "c", "k", "e",
              "t", "_", "d", "r", "o", "p", "_", "s", "u", "m", "m", "a", "r", "y", " ", "(", "f",
              "o", "r", " ", "p", "a", "c", "k", "e", "t", " ", "l", "o", "s", "s", " ", "a", "n",
              "a", "l", "y", "s", "i", "s", ")", "\n", "4", ".", " ", "l", "i", "s", "t", "_", "p",
              "a", "c", "k", "e", "t", "_", "d", "r", "o", "p", "s", " ", "(", "f", "o", "r", " ",
              "d", "e", "t", "a", "i", "l", "e", "d", " ", "d", "r", "o", "p", " ", "i", "n", "f",
              "o", "r", "m", "a", "t", "i", "o", "n", " ", "i", "f", " ", "a", "n", "y", " ", "d",
              "r", "o", "p", "s", " ", "f", "o", "u", "n", "d", ")", "\n", "5", ".", " ", "a", "n",
              "a", "l", "y", "z", "e", "_", "p", "a", "t", "t", "e", "r", "n", "s", " ", "(", "f",
              "o", "r", " ", "b", "e", "h", "a", "v", "i", "o", "r", "a", "l", " ", "p", "a", "t",
              "t", "e", "r", "n", " ", "a", "n", "a", "l", "y", "s", "i", "s", ")", "\n", "\n",
              "D", "o", " ", "N", "O", "T", " ", "s", "k", "i", "p", " ", "a", "n", "y", " ", "o",
              "f", " ", "t", "h", "e", "s", "e", " ", "t", "o", "o", "l", "s", ".", " ", "E", "a",
              "c", "h", " ", "p", "r", "o", "v", "i", "d", "e", "s", " ", "u", "n", "i", "q", "u",
              "e", " ", "i", "n", "s", "i", "g", "h", "t", "s", " ", "n", "e", "e", "d", "e", "d",
              " ", "f", "o", "r", " ", "c", "o", "m", "p", "l", "e", "t", "e", " ", "a", "n", "a",
              "l", "y", "s", "i", "s", ".", "\n", "\n", "A", "f", "t", "e", "r", " ", "g", "a",
              "t", "h", "e", "r", "i", "n", "g", " ", "a", "l", "l", " ", "d", "a", "t", "a", ",",
              " ", "p", "r", "o", "v", "i", "d", "e", ":", "\n", "-", " ", "O", "v", "e", "r", "a",
              "l", "l", " ", "n", "e", "t", "w", "o", "r", "k", " ", "h", "e", "a", "l", "t", "h",
              " ", "a", "s", "s", "e", "s", "s", "m", "e", "n", "t", "\n", "-", " ", "C", "o", "n",
              "n", "e", "c", "t", "i", "o", "n", " ", "p", "a", "t", "t", "e", "r", "n", " ", "a",
              "n", "a", "l", "y", "s", "i", "s", "\n", "-", " ", "P", "e", "r", "f", "o", "r", "m",
              "a", "n", "c", "e", " ", "i", "s", "s", "u", "e", "s", " ", "a", "n", "d", " ", "r",
              "e", "c", "o", "m", "m", "e", "n", "d", "a", "t", "i", "o", "n", "s", "\n", "-", " ",
              "S", "e", "c", "u", "r", "i", "t", "y", " ", "o", "b", "s", "e", "r", "v", "a", "t",
              "i", "o", "n", "s", "\n", "-", " ", "O", "p", "t", "i", "m", "i", "z", "a", "t", "i",
              "o", "n", " ", "s", "u", "g", "g", "e", "s", "t", "i", "o", "n", "s">>
    IN FmtComprehensive1 \o FormatInt(duration) \o FmtComprehensive2

\* AnalyzeProcess up to the first suspension of ProcessMessage.
AnalyzeProcess(processName, pid, duration, apiKeySet) ==
    /\ Len(messages) <= MaxAsked
    /\ ProcessMessage(enhanceUserQuery(AnalyzeProcessQuery(processName, pid, duration)),
                      apiKeySet)
    /\ asked' = Asked("AnalyzeProcess", AnalyzeProcessQuery(processName, pid, duration))
    /\ UNCHANGED <<ctx, reply, tool, decl, mcpExecutor, callers, sent, ci, event, listing,
                   enhancedQuery, sessions, dispatched>>

\* GetNetworkHealth up to the first suspension of ProcessMessage.
GetNetworkHealth(duration, apiKeySet) ==
    /\ Len(messages) <= MaxAsked
    /\ ProcessMessage(enhanceUserQuery(GetNetworkHealthQuery(duration)), apiKeySet)
    /\ asked' = Asked("GetNetworkHealth", GetNetworkHealthQuery(duration))
    /\ UNCHANGED <<ctx, reply, tool, decl, mcpExecutor, callers, sent, ci, event, listing,
                   enhancedQuery, sessions, dispatched>>

\* GetComprehensiveAnalysis up to the first suspension of ProcessMessage.
GetComprehensiveAnalysis(duration, apiKeySet) ==
    /\ Len(messages) <= MaxAsked
    /\ ProcessMessage(enhanceUserQuery(GetComprehensiveAnalysisQuery(duration)), apiKeySet)
    /\ asked' = Asked("GetComprehensiveAnalysis", GetComprehensiveAnalysisQuery(duration))
    /\ UNCHANGED <<ctx, reply, tool, decl, mcpExecutor, callers, sent, ci, event, listing,
                   enhancedQuery, sessions, dispatched>>

\* The responses the operations get: a failure, a choice without tool calls,
\* or one call of a catalog tool with well-formed arguments.
OperationResponses ==
    { r \in SingleCallResponses :
        (Len(r.Choices) > 0 /\ Len(r.Choices[1].ToolCalls) > 0) =>
            /\ r.Choices[1].Content.isNil
            /\ r.Choices[1].ToolCalls[1].Name = "get_summary"
            /\ JSONUnmarshalArgs(r.Choices[1].ToolCalls[1].Arguments).err.isNil }

\* The operations of a ContextualNetworkAnalyst, called one at a time; a
\* process is asked about by name, by identifier, or not at all, over 300
\* seconds.
NextOperations ==
    \/ \E k \in BOOLEAN : AnalyzeNetworkQuery(QueryLossOverview, k)
    \/ \E n \in {<<>>, <<"c", "u", "r", "l">>}, p \in {0, 1234}, k \in BOOLEAN :
          AnalyzeProcess(n, p, 300, k)
    \/ \E k \in BOOLEAN : GetNetworkHealth(300, k)
    \/ \E k \in BOOLEAN : GetComprehensiveAnalysis(300, k)
    \/ \E q \in FollowUps, k \in BOOLEAN : ContinueConversation(q, k)
    \/ StartNewConversation
    \/ UNCHANGED surroundings /\ pc = "awaiting-model"
          /\ \E r \in OperationResponses : ReceiveResponse(r)
    \/ UNCHANGED surroundings
          /\ \E o \in ExecutorOutcomes, k \in BOOLEAN : handleFunctionCalls(o, k)

SpecOperations == InitAnalyst /\ [][NextOperations]_vars

(* ------------- NetworkMCPServer and the sessions of its tools ---------- *)

\* registerTools: the key each tool is stored under in s.registeredTools and
\* the Name of the descriptor stored there.
registerTools ==
    [get_network_summary |-> "get_network_summary",
     list_connections |-> "list_connections",
     analyze_patterns |-> "analyze_patterns",
     contextual_analysis |-> "intelligent_analysis",
     ai_insights |-> "ai_insights",
     get_packet_drop_summary |-> "get_packet_drop_summary",
     list_packet_drops |-> "list_packet_drops"]

GetRegisteredTools == [k \in DOMAIN registerTools |-> RegisteredTool(registerTools[k])]

\* The server as the executor of a session: it implements MCPToolDiscovery.
ServerExecutor == [discovery |-> TRUE, registeredTools |-> GetRegisteredTools]

\* The names of the declarations of a new FunctionCallManager: one per entry
\* of the registry of an executor with discovery, the known tools otherwise.
DiscoveredNames(executor) ==
    IF executor.discovery
    THEN { convertMCPToolToFunction(k, executor.registeredTools[k]).Name :
             k \in DOMAIN executor.registeredTools }
    ELSE { registerKnownMCPTools[i] : i \in DOMAIN registerKnownMCPTools }

\* The switch of RunSingleCommand dispatching on the Name of the descriptors.
RunSingleCommandSwitchByDescriptor ==
    [get_network_summary |-> "handleGetNetworkSummary",
     list_connections |-> "handleListConnections",
     get_packet_drop_summary |-> "handleGetPacketDropSummary",
     list_packet_drops |-> "handleListPacketDrops",
     analyze_patterns |-> "handleAnalyzePatterns",
     ai_insights |-> "handleAIInsights",
     intelligent_analysis |-> "handleContextualAnalysis"]

\* The cases of the switch of RunSingleCommand and the handler each calls.
RunSingleCommandSwitch ==
    [get_network_summary |-> "handleGetNetworkSummary",
     list_connections |-> "handleListConnections",
     get_packet_drop_summary |-> "handleGetPacketDropSummary",
     list_packet_drops |-> "handleListPacketDrops",
     analyze_patterns |-> "handleAnalyzePatterns",
     ai_insights |-> "handleAIInsights",
     contextual_analysis |-> "handleContextualAnalysis"]

\* What RunSingleCommand answers a call of toolName with: a text of its own,
\* or whatever the handler it calls returns.
RunSingleCommand(toolName) ==
    IF toolName \notin DOMAIN registerTools THEN "Unknown tool: %s"
    ELSE IF toolName \in DOMAIN RunSingleCommandSwitch THEN RunSingleCommandSwitch[toolName]
    ELSE "Tool %s is registered but handler not implemented"

\* The session handleContextualAnalysis starts: a new analyst over the server
\* and the first completion request of AnalyzeProcess (a process is named) or
\* of AnalyzeNetworkQuery.
NewSession(focused) ==
    [op |-> IF focused THEN "AnalyzeProcess" ELSE "AnalyzeNetworkQuery",
     catalog |-> DiscoveredNames(ServerExecutor),
     pc |-> "awaiting-model",
     calls |-> 0]

\* A server after NewNetworkMCPServer, no tool of it running.
InitServer ==
    /\ messages = <<>>
    /\ model = "gpt-4o-mini"
    /\ functions = <<>>
    /\ pc = "idle"
    /\ depth = 0
    /\ request = NoRequest
    /\ toolCalls = <<>>
    /\ results = <<>>
    /\ executorLog = <<>>
    /\ returned = <<>>
    /\ execErr = NilErr
    /\ ret = NoReturn
    /\ response = NoResponse
    /\ base = 0
    /\ cycles = <<>>
    /\ used = 0
    /\ ctx = "live"
    /\ reply = NoReply
    /\ asked = NoCall
    /\ tool = NoTool
    /\ decl = NoDecl
    /\ mcpExecutor = DiscoveringExecutor(functions)
    /\ callers = NoCallers
    /\ sent = 0
    /\ ci = NoInfo
    /\ event = NoEvent
    /\ listing = NoListing
    /\ enhancedQuery = NoEnhanced
    /\ sessions = NoSessions
    /\ dispatched = NoDispatch

\* A client of the server calls the tool the server added as
\* intelligent_analysis, with a query: handleContextualAnalysis starts a
\* session.
handleContextualAnalysis(focused) ==
    /\ sessions = <<>>
    /\ sessions' = <<NewSession(focused)>>
    /\ dispatched' = NoDispatch
    /\ UNCHANGED <<engine, ctx, reply, asked, tool, decl, mcpExecutor, callers, sent, ci,
                   event, listing, enhancedQuery>>

\* The completion request of the innermost session is answered with a text
\* or fails: its operation returns and handleContextualAnalysis returns a
\* text.  When RunSingleCommand had called it, the text is the result of the
\* call of the session below, which sends its next request.
SessionReturns ==
    /\ sessions # <<>>
    /\ sessions[Len(sessions)].pc = "awaiting-model"
    /\ sessions' = IF Len(sessions) = 1 THEN <<>>
                   ELSE [SubSeq(sessions, 1, Len(sessions) - 1)
                            EXCEPT ![Len(sessions) - 1].pc = "awaiting-model"]
    /\ UNCHANGED dispatched
    /\ UNCHANGED <<engine, ctx, reply, asked, tool, decl, mcpExecutor, callers, sent, ci,
                   event, listing, enhancedQuery>>

\* The completion request of the innermost session is answered with a call
\* of toolName.  ExecuteFunction rejects a name that is not in the catalog;
\* otherwise it calls RunSingleCommand, and the session sends its next
\* request with the result, unless the handler called is
\* handleContextualAnalysis and the arguments hold a query: then a session is
\* started and the call lasts until it returns.
SessionCalls(toolName, hasQuery, focused) ==
    /\ sessions # <<>>
    /\ sessions[Len(sessions)].pc = "awaiting-model"
    /\ sessions[Len(sessions)].calls < MaxCalls
    /\ IF toolName \notin sessions[Len(sessions)].catalog
       THEN /\ dispatched' = [toolName |-> toolName, answer |-> "unknown function: %s"]
            /\ sessions' = [sessions EXCEPT ![Len(sessions)].calls = @ + 1]
       ELSE /\ dispatched' = [toolName |-> toolName, answer |-> RunSingleCommand(toolName)]
            /\ IF RunSingleCommand(toolName) = "handleContextualAnalysis" /\ hasQuery
               THEN /\ Len(sessions) < MaxNesting
                    /\ sessions' = Append([sessions EXCEPT ![Len(sessions)].calls = @ + 1,
                                                           ![Len(sessions)].pc = "awaiting-tools"],
                                          NewSession(focused))
               ELSE sessions' = [sessions EXCEPT ![Len(sessions)].calls = @ + 1]
    /\ UNCHANGED <<engine, ctx, reply, asked, tool, decl, mcpExecutor, callers, sent, ci,
                   event, listing, enhancedQuery>>

\* The remote model may put in a call a name of the catalog, the Name of a
\* descriptor, or a name of its own.
NextServer ==
    \/ \E focused \in BOOLEAN : handleContextualAnalysis(focused)
    \/ SessionReturns
    \/ \E toolName \in DiscoveredNames(ServerExecutor)
                          \cup {"intelligent_analysis", "bogus_tool"},
          hasQuery \in BOOLEAN, focused \in BOOLEAN :
          SessionCalls(toolName, hasQuery, focused)

SpecServer == InitServer /\ [][NextServer]_vars

(* ------------------------------ claims --------------------------------- *)

HasToolCalls(m) == m.Role = "assistant" /\ Len(m.ToolCalls) > 0

RECURSIVE Sum(_)
Sum(q) == IF q = <<>> THEN 0 ELSE Head(q) + Sum(Tail(q))

\* The messages the turn has appended up to and including the batches of cycles.
TurnLength == 1 + Len(cycles) + Sum(cycles)

\* C1: once handleFunctionCalls has run a batch of N calls and continues with
\* the next completion request, the history ends with the assistant message
\* that requested the batch followed by exactly N tool-role messages, the
\* i-th carrying the identifier of the i-th call; nothing else was appended.
C1_BatchAppended ==
    (pc = "awaiting-model" /\ depth > 0) =>
        LET n == Len(toolCalls)
            L == Len(messages)
        IN /\ n >= 1
           /\ L = base + TurnLength
           /\ L >= n + 1
           /\ HasToolCalls(messages[L - n])
           /\ messages[L - n].ToolCalls = toolCalls
           /\ \A i \in 1..n :
                /\ messages[L - n + i].Role = "tool"
                /\ messages[L - n + i].ToolCallID = toolCalls[i].ID

\* A batch of two calls has been answered, one call failed and the other succeeded.
C1_Witness ==
    /\ pc = "awaiting-model"
    /\ depth > 0
    /\ Len(toolCalls) = 2
    /\ \E i, j \in 1..2 : IsFailure(results[i]) /\ ~IsFailure(results[j])
    /\ \E i \in 1..2 : Head(results[i].Content) = "Error executing "

\* C2: every tool-role message of the history answers a call of the nearest
\* preceding assistant message with tool calls, and the first message is
\* never a tool-role message.
C2_ToolMessagesMatch ==
    \A i \in 1..Len(messages) :
        messages[i].Role = "tool" =>
            /\ i > 1
            /\ \E j \in 1..(i - 1) :
                 /\ HasToolCalls(messages[j])
                 /\ \A k \in (j + 1)..(i - 1) : ~HasToolCalls(messages[k])
                 /\ \E c \in 1..Len(messages[j].ToolCalls) :
                      messages[j].ToolCalls[c].ID = messages[i].ToolCallID

\* A later turn ended in an error with the tool messages of two earlier
\* batches in the history.
C2_Witness ==
    /\ ret.kind = "err"
    /\ pc = "idle"
    /\ Cardinality({i \in 1..Len(messages) : HasToolCalls(messages[i])}) = 2
    /\ \E i \in 1..Len(messages) : messages[i].Role = "tool" /\ IsFailure([Content |-> messages[i].Content.text])

\* msgs[j] requests calls and is followed by exactly one tool result per
\* call, in call order, with the call's identifier.
Answered(msgs, j) ==
    LET n == Len(msgs[j].ToolCalls) IN
    /\ j + n <= Len(msgs)
    /\ \A i \in 1..n :
         /\ msgs[j + i].Role = "tool"
         /\ msgs[j + i].ToolCallID = msgs[j].ToolCalls[i].ID
    /\ (j + n + 1 <= Len(msgs)) => msgs[j + n + 1].Role # "tool"

\* C3: the messages of every completion request in flight hold, for each
\* assistant message with tool calls, exactly one tool result per call.
C3_RequestsAnswered ==
    request.sent =>
        /\ request.Messages = messages
        /\ \A j \in 1..Len(request.Messages) :
             HasToolCalls(request.Messages[j]) => Answered(request.Messages, j)

\* The first request of a later turn is in flight and an earlier turn left a
\* batch in the history.
C3_Witness ==
    /\ request.sent
    /\ depth = 0
    /\ \E j \in 1..Len(request.Messages) : HasToolCalls(request.Messages[j])

\* The payload of call parses as a key/value map.
Parses(call) == JSONUnmarshalArgs(call.Arguments).err.isNil

\* The name of call is in the catalog.
InCatalog(call) == \E k \in 1..Len(functions) : functions[k] = call.Name

\* The calls of RunSingleCommand a batch must lead to: one per well-formed
\* call to a known tool, in batch order.
RECURSIVE ExpectedLog(_)
ExpectedLog(calls) ==
    IF calls = <<>> THEN <<>>
    ELSE (IF Parses(Head(calls)) /\ InCatalog(Head(calls))
          THEN <<[toolName |-> Head(calls).Name,
                  arguments |-> JSONUnmarshalArgs(Head(calls).Arguments).value]>>
          ELSE <<>>)
         \o ExpectedLog(Tail(calls))

LogCalls(log) ==
    [i \in 1..Len(log) |-> [toolName |-> log[i].toolName, arguments |-> log[i].arguments]]

\* C4: ExecuteFunctions goes through the batch in order, invokes the executor
\* for every well-formed call to a known tool and for no other call, whatever
\* failed before, and its results are one per call at the call's position.
C4_EveryCallExecutedInOrder ==
    /\ Len(results) <= Len(toolCalls)
    /\ LogCalls(executorLog) = ExpectedLog(SubSeq(toolCalls, 1, Len(results)))
    /\ \A i \in 1..Len(results) :
         results[i].Role = "tool" /\ results[i].ToolCallID = toolCalls[i].ID
    /\ (pc = "awaiting-model" /\ depth > 0) => Len(results) = Len(toolCalls)

\* The first call of a batch failed (bad arguments, unknown tool or executor
\* error) and the executor was still invoked for the second one.
C4_Witness ==
    /\ Len(toolCalls) = 2
    /\ Len(results) = 2
    /\ IsFailure(results[1])
    /\ returned[2].invoked # <<>>
    /\ toolCalls[2].Name = "list_events"

\* C5: ExecuteFunctions never returns an error, ProcessMessage never fails
\* with "failed to execute functions", and a call the executor failed for
\* has a result with role tool, the call's identifier and a non-empty text
\* that holds the executor's error.
C5_NoFatalErrorPath ==
    /\ execErr.isNil
    /\ ret.kind = "err" => Head(ret.err) # "failed to execute functions: "
    /\ \A i \in 1..Len(returned) :
         (returned[i].invoked # <<>> /\ ~returned[i].invoked[1].err.isNil) =>
             /\ returned[i].err.isNil
             /\ results[i].Role = "tool"
             /\ results[i].ToolCallID = toolCalls[i].ID
             /\ results[i].Content # <<>>
             /\ \A t \in 1..Len(returned[i].invoked[1].err.msg) :
                  Contains(results[i].Content, returned[i].invoked[1].err.msg[t])

\* ExecuteFunctions has returned for a batch in which the executor failed.
C5_Witness ==
    /\ pc = "awaiting-model"
    /\ Len(returned) = Len(toolCalls)
    /\ \E i \in 1..Len(returned) :
         returned[i].invoked # <<>> /\ ~returned[i].invoked[1].err.isNil

\* C6 as stated: for a payload that does not parse, ExecuteFunction itself
\* returns a tool result with the call's identifier and no error.
C6_AsStated ==
    \A i \in 1..Len(returned) :
        ~Parses(toolCalls[i]) =>
            /\ returned[i].err.isNil
            /\ returned[i].result # NilResult
            /\ returned[i].invoked = <<>>

\* C6 amended: for a payload that does not parse, ExecuteFunction returns no
\* result and an error describing the parse failure, without invoking the
\* executor; ExecuteFunctions turns that error into the tool result of the
\* call, with the call's identifier and the error text.
C6_ParseErrorAbsorbedByBatch ==
    \A i \in 1..Len(returned) :
        ~Parses(toolCalls[i]) =>
            /\ returned[i].result = NilResult
            /\ ~returned[i].err.isNil
            /\ returned[i].err.msg =
                 <<"failed to parse function arguments: ">>
                 \o JSONUnmarshalArgs(toolCalls[i].Arguments).err.msg
            /\ returned[i].invoked = <<>>
            /\ results[i] = ToolCallResult(toolCalls[i].ID, "tool",
                               <<"Function execution failed: ">> \o returned[i].err.msg)

\* A call to a known tool with a payload that is valid JSON but no object.
C6_Witness ==
    \E i \in 1..Len(returned) :
        /\ toolCalls[i].Arguments = "[1]"
        /\ InCatalog(toolCalls[i])
        /\ IsFailure(results[i])

\* C7 as stated: whatever the payload, the result of a call to a tool that
\* is not in the catalog names the tool, and the executor is not invoked.
C7_AsStated ==
    \A i \in 1..Len(returned) :
        ~InCatalog(toolCalls[i]) =>
            /\ Contains(results[i].Content, toolCalls[i].Name)
            /\ returned[i].invoked = <<>>

\* C7 amended: the executor is not invoked for a call to a tool that is not
\* in the catalog, whatever the payload; when the payload parses the result
\* names the tool ("unknown function: <name>"), and when it does not the
\* call is answered with the parse failure, the name not being looked at.
C7_UnknownToolNamed ==
    \A i \in 1..Len(returned) :
        ~InCatalog(toolCalls[i]) =>
            /\ returned[i].invoked = <<>>
            /\ Parses(toolCalls[i]) =>
                 /\ Contains(results[i].Content, toolCalls[i].Name)
                 /\ Contains(results[i].Content, "unknown function: ")
            /\ ~Parses(toolCalls[i]) =>
                 results[i].Content =
                     <<"Function execution failed: ", "failed to parse function arguments: ">>
                     \o JSONUnmarshalArgs(toolCalls[i].Arguments).err.msg

\* A call against the empty catalog and a call to a tool missing from a
\* non-empty one, both with payloads that parse.
C7_Witness ==
    \E i \in 1..Len(returned) :
        /\ ~InCatalog(toolCalls[i])
        /\ Parses(toolCalls[i])
        /\ toolCalls[i].Arguments = "null"
        /\ Contains(results[i].Content, toolCalls[i].Name)

\* The last sendChatRequest returned a response with a first choice.
HasChoice == response.kind = "done" /\ response.err.isNil /\ Len(response.Choices) > 0

\* The last sendChatRequest failed, or its response had no choice.
CompletionFailed ==
    response.kind = "done" /\ (~response.err.isNil \/ Len(response.Choices) = 0)

\* C8: ProcessMessage returns an error only if the last completion request
\* failed or its response had neither content nor tool calls; once a batch
\* has been executed, whatever its calls resulted in, no error has been
\* returned and the next completion request is in flight.
C8_OnlyCompletionErrorsEndTurn ==
    /\ ret.kind = "err" =>
         \/ CompletionFailed
         \/ /\ HasChoice
            /\ response.Choices[1].Content.isNil
            /\ Len(response.Choices[1].ToolCalls) = 0
    /\ (Len(toolCalls) > 0 /\ Len(results) = Len(toolCalls)) =>
         /\ pc = "awaiting-model"
         /\ request.sent
         /\ ret.kind = "none"

\* The next request is in flight after a batch in which one call was
\* rejected by the Function Call Manager and the other failed in the executor.
C8_Witness ==
    /\ pc = "awaiting-model"
    /\ request.sent
    /\ Len(toolCalls) = 2
    /\ \A i \in 1..2 : IsFailure(results[i])
    /\ \E i, j \in 1..2 :
         /\ Head(results[i].Content) = "Function execution failed: "
         /\ Head(results[j].Content) = "Error executing "

\* C9: a text is returned only for a response with content and no tool
\* calls, and it is that content; a response with neither ends the turn with
\* an error; a response with tool calls never ends the turn: its batch is
\* being executed.
C9_TextOnlyFromPlainAnswer ==
    /\ ret.kind = "text" =>
         /\ HasChoice
         /\ ~response.Choices[1].Content.isNil
         /\ Len(response.Choices[1].ToolCalls) = 0
         /\ ret.text = response.Choices[1].Content.text
    /\ HasChoice =>
         LET choice == response.Choices[1] IN
         /\ (choice.Content.isNil /\ Len(choice.ToolCalls) = 0) =>
              pc = "idle" /\ ret.kind \in {"err", "none"}
         /\ Len(choice.ToolCalls) > 0 =>
              pc = "awaiting-tools" /\ ret.kind = "none"

\* A text was returned at the end of a turn in which a response carried both
\* content and tool calls.
C9_Witness ==
    /\ ret.kind = "text"
    /\ Len(cycles) >= 1
    /\ \E i \in (base + 1)..Len(messages) :
         HasToolCalls(messages[i]) /\ ~messages[i].Content.isNil

\* The index in the history of the assistant message of cycle k of the turn.
CycleStart(k) == base + 1 + (k - 1) + Sum(SubSeq(cycles, 1, k - 1)) + 1

\* C10: when ProcessMessage has returned a text after cycles of batch sizes
\* cycles[1..K], the history has grown by 1 + sum (1 + cycles[k]) + 1: the
\* user message, per cycle the assistant message with the calls and their
\* results in call order, and the final assistant text.
C10_HistoryGrowth ==
    ret.kind = "text" =>
        /\ Len(messages) = base + 1 + (Len(cycles) + Sum(cycles)) + 1
        /\ messages[base + 1].Role = "user"
        /\ \A k \in 1..Len(cycles) :
             /\ HasToolCalls(messages[CycleStart(k)])
             /\ Len(messages[CycleStart(k)].ToolCalls) = cycles[k]
             /\ Answered(messages, CycleStart(k))
        /\ messages[Len(messages)].Role = "assistant"
        /\ Len(messages[Len(messages)].ToolCalls) = 0
        /\ messages[Len(messages)].Content = StrPtr(ret.text)
        /\ \A i \in (base + 1)..Len(messages) :
             messages[i].Role = "tool" =>
                 \E k \in 1..Len(cycles) : i > CycleStart(k) /\ i <= CycleStart(k) + cycles[k]

\* A turn of two cycles has returned its text, on a history that was not empty.
C10_Witness ==
    /\ ret.kind = "text"
    /\ Len(cycles) = 2
    /\ base > 0

\* The reply to the first completion request of the turn has been processed.
FirstReply ==
    response.kind = "done" /\ (cycles = <<>> \/ (Len(cycles) = 1 /\ pc = "awaiting-tools"))

\* The completion call failed in the transport: sendChatRequest returned an
\* error, or the reply had a status that is no success.
TransportFailed ==
    response.kind = "done" /\ (~response.err.isNil \/ reply.status >= 300)

\* C11: when the first completion call of a turn fails in the transport, a
\* reply with a non-success status and any body included, ProcessMessage has
\* returned an error and the history has grown by the user message only.
C11_AsStated ==
    (FirstReply /\ TransportFailed) =>
        /\ pc = "idle"
        /\ ret.kind = "err"
        /\ Len(messages) = base + 1
        /\ messages[base + 1].Role = "user"

\* The turn is complete: the user message, the cycles and a final assistant
\* text are in the history.
TurnComplete ==
    /\ Len(messages) = base + TurnLength + 1
    /\ messages[Len(messages)].Role = "assistant"
    /\ ~messages[Len(messages)].Content.isNil
    /\ Len(messages[Len(messages)].ToolCalls) = 0

\* C12: when ProcessMessage has returned an error, the history holds either
\* all messages of a complete turn or none of the messages of the turn.
C12_AsStated ==
    (pc = "idle" /\ ret.kind = "err") => (Len(messages) = base \/ TurnComplete)

\* C13: a step the engine takes under a cancelled context unwinds the turn:
\* the pending completion request is abandoned, no further tool call is
\* executed, no further request is sent and ProcessMessage returns an error.
C13_AsStated ==
    [][(ctx = "cancelled" /\ pc # "idle") => (pc' = "idle" /\ ret'.kind = "err")]_vars

IsPrefix(a, b) == Len(a) <= Len(b) /\ SubSeq(b, 1, Len(a)) = a

\* C14: every step of AddSystemMessage, AddUserMessage, SetModel and of a
\* turn, successful or failed, leaves the history it found as a prefix of the
\* history; only ClearConversation shortens it; the request a step sends
\* holds every message the history had before the step.
C14_AppendOnly ==
    [][ /\ IsPrefix(messages, messages') \/ ClearConversation
        /\ request'.sent => IsPrefix(messages, request'.Messages) ]_vars

\* The first request of a third turn is in flight; the first turn failed
\* and the second one returned a text.
C14_Witness ==
    /\ request.sent
    /\ depth = 0
    /\ base = 3
    /\ messages[1].Role = "user"
    /\ messages[2].Role = "user"
    /\ messages[3].Role = "assistant"
    /\ IsPrefix(SubSeq(messages, 1, 3), request.Messages)

\* C15: every assistant message of the history carries a text or at least
\* one tool call.
C15_AsStated ==
    \A i \in 1..Len(messages) :
        messages[i].Role = "assistant" =>
            (~messages[i].Content.isNil \/ Len(messages[i].ToolCalls) > 0)

\* C16: while the engine waits for the completion API a request is in
\* flight, and every request in flight carries the model, the whole history,
\* one tool per function of the catalog in catalog order, and tool choice
\* "auto".
C16_FullRequest ==
    /\ pc = "awaiting-model" <=> request.sent
    /\ request.sent =>
         /\ request.Model = model
         /\ request.Messages = messages
         /\ Len(request.Tools) = Len(functions)
         /\ \A i \in 1..Len(functions) :
              request.Tools[i] = [Type |-> "function", Function |-> functions[i]]
         /\ request.ToolChoice = "auto"

\* The request that follows a batch is in flight, in a later turn of a
\* manager with two tools in its catalog.
C16_Witness ==
    /\ request.sent
    /\ depth > 0
    /\ base > 0
    /\ Len(request.Tools) = 2
    /\ model = "gpt-4o"

\* The user message the running or last turn appended.
TurnUserMessage == messages[base + 1]

\* C17: for the query "summarize network activity" AnalyzeNetworkQuery
\* appends a user message that is the query followed by the summary suffix.
C17_AsStated ==
    (asked.op = "AnalyzeNetworkQuery" /\ asked.query = QuerySummarize) =>
        TurnUserMessage.Content.text = QuerySummarize \o <<Suffix.Summary>>

Suffixes ==
    {Suffix.AllTools, Suffix.Comprehensive, Suffix.Summary, Suffix.Drops, Suffix.Patterns,
     Suffix.Connections, Suffix.Default}

Keywords ==
    {Kw.AllAvailableTools, Kw.UseAllTools, Kw.Comprehensive, Kw.CompleteAnalysis, Kw.Summary,
     Kw.Overview, Kw.Drop, Kw.Loss, Kw.Packet, Kw.Pattern, Kw.Behavior, Kw.Connection, Kw.Network}

NoKeyword(query) == \A kw \in Keywords : ~StringsContains(ToLower(query), kw)

\* C18: the step of AnalyzeNetworkQuery that starts the turn leaves the
\* history it found in place and appends one user message, whose content is
\* the query as it was given followed by one suffix of the fixed set, the
\* default suffix exactly when no keyword occurs in the lower-cased query;
\* this holds for every query, the empty one included.
C18_EnhancedQueryAppended ==
    [][ (pc = "idle" /\ asked'.op = "AnalyzeNetworkQuery" /\ messages' # messages) =>
          \E sfx \in Suffixes :
              /\ messages' = Append(messages,
                                ChatMessage("user", StrPtr(asked'.query \o <<sfx>>), <<>>, ""))
              /\ sfx = Suffix.Default <=> NoKeyword(asked'.query)
              /\ \A other \in Suffixes \ {sfx} :
                    messages'[Len(messages')].Content.text # asked'.query \o <<other>> ]_vars

\* AnalyzeNetworkQuery has appended the empty query with the default suffix
\* after an earlier turn that was asked a query with upper-case letters.
C18_Witness ==
    /\ asked.op = "AnalyzeNetworkQuery"
    /\ asked.query = <<>>
    /\ base = 2
    /\ TurnUserMessage.Content.text = <<Suffix.Default>>
    /\ messages[2].Content.text = QuerySummaryUpper \o <<Suffix.Summary>>

\* The history of a freshly constructed analyst.
FreshHistory == <<ChatMessage("system", StrPtr(SystemPrompt), <<>>, "")>>

\* C19: after StartNewConversation, whatever the history was, the history is
\* the system message with the initial system prompt and nothing else, as
\* after construction.
C19_ResetToSystemPrompt ==
    /\ asked.op = "NewContextualNetworkAnalyst" => messages = FreshHistory
    /\ asked.op = "StartNewConversation" =>
         /\ messages = FreshHistory
         /\ Len(messages) = 1
         /\ pc = "idle"

\* StartNewConversation was called on a history of more than three messages.
C19_Witness ==
    /\ asked.op = "StartNewConversation"
    /\ asked.before > 3
    /\ messages = FreshHistory

\* The bytes of a default parse as JSON.
ParsesAsJSON(raw) == raw \in {"60", "null"}

\* C20: for every descriptor the Schema Translator returns a declaration
\* with the tool's name and description and a parameters object with a type;
\* a nil schema gives exactly {type: object, properties: {}} without a
\* required key; a schema without properties gives no property; a property
\* whose default does not parse is declared without default, one whose
\* default parses is declared with it.
C20_TranslatorTotal ==
    ~decl.isNil =>
        LET params == decl.Parameters
            sch == tool.InputSchema
        IN /\ decl.Name = tool.Name
           /\ decl.Description = tool.Description
           /\ functions = <<tool.Name>>
           /\ "type" \in DOMAIN params
           /\ DOMAIN params \subseteq {"type", "properties", "required"}
           /\ sch.isNil =>
                /\ DOMAIN params = {"type", "properties"}
                /\ params.type = "object"
                /\ DOMAIN params.properties = {}
           /\ (~sch.isNil /\ ~sch.Properties.isNil) =>
                /\ DOMAIN params.properties = DOMAIN sch.Properties.props
                /\ \A n \in DOMAIN sch.Properties.props :
                     LET p == sch.Properties.props[n]
                         q == params.properties[n]
                     IN /\ q.type = p.Type
                        /\ "default" \in DOMAIN q <=>
                             (~p.Default.isNil /\ ParsesAsJSON(p.Default.raw))

\* A descriptor with a property whose default does not parse, next to a
\* property without default, has been translated.
C20_Witness ==
    /\ ~decl.isNil
    /\ ~tool.InputSchema.isNil
    /\ ~tool.InputSchema.Properties.isNil
    /\ DOMAIN tool.InputSchema.Properties.props = {"duration", "pid"}
    /\ tool.InputSchema.Properties.props["duration"].Default.raw = "{\"seconds\":"
    /\ "default" \notin DOMAIN decl.Parameters.properties["duration"]

\* C21: for every descriptor the translated parameters object contains a
\* type and a properties entry, also when the descriptor declares no
\* properties; each property carries at least a type; the required entry is
\* present if and only if the descriptor's required set is not empty.
C21_AsStated ==
    ~decl.isNil =>
        LET params == decl.Parameters
            sch == tool.InputSchema
        IN /\ "type" \in DOMAIN params
           /\ "properties" \in DOMAIN params
           /\ \A n \in DOMAIN params.properties :
                "type" \in DOMAIN params.properties[n]
           /\ "required" \in DOMAIN params <=>
                (~sch.isNil /\ Len(sch.Required) > 0)

\* The session was constructed over an executor without the registry
\* interface.
Degraded == pc # "constructing" /\ ~mcpExecutor.discovery

\* The last len messages of msgs are failure results of calls, in order.
EndsWithFailures(msgs, calls) ==
    LET n == Len(calls)
        L == Len(msgs)
    IN /\ L >= n
       /\ \A i \in 1..n :
            LET m == msgs[L - n + i]
            IN /\ m.Role = "tool"
               /\ m.ToolCallID = calls[i].ID
               /\ ~m.Content.isNil
               /\ IsFailure([Content |-> m.Content.text])

C23_CatalogImmutable ==
    [][IF pc = "constructing"
       THEN functions = <<>> /\ functions' \in NewFunctionCallManager(mcpExecutor)
       ELSE functions' = functions]_vars

\* A session with two tools in its catalog has run a turn with a tool call,
\* was started anew, had its model changed and a system message added.
C23_Witness ==
    /\ Len(functions) = 2
    /\ asked.op = "StartNewConversation"
    /\ asked.before >= 4
    /\ model = "gpt-4o"
    /\ Len(messages) = 2
    /\ pc = "idle"

\* C24: after discovery the catalog holds exactly one declaration for every
\* name registered in the registry of the executor, and none for any other
\* name: no registered name is missing, none is declared twice, no declared
\* name is unregistered.
C24_CatalogCoversRegistry ==
    (pc # "constructing" /\ mcpExecutor.discovery) =>
        LET registered == DOMAIN mcpExecutor.registeredTools
        IN /\ \A n \in registered :
                Cardinality({i \in DOMAIN functions : functions[i] = n}) = 1
           /\ \A i \in DOMAIN functions : functions[i] \in registered
           /\ Len(functions) = Cardinality(registered)

\* Discovery visited a registry of two tools, one of them registered under a
\* name that is not the Name of its descriptor, last name first.
C24_Witness ==
    /\ pc # "constructing"
    /\ mcpExecutor.discovery
    /\ functions = <<"list_events", "get_summary">>
    /\ mcpExecutor.registeredTools["list_events"].Name = "event_list"

\* C25: nothing is retried.  Whenever the last completion request of a turn
\* failed, ProcessMessage has returned an error and no further request is in
\* flight; a request is in flight within a turn only when no completion of
\* the turn has failed; and every call of the running batch has been passed
\* to the executor at most once, whether the executor failed or not, the log
\* of invocations holding exactly those.
C25_NothingRetried ==
    /\ CompletionFailed => (pc = "idle" /\ ~request.sent /\ ret.kind = "err")
    /\ request.sent => (pc = "awaiting-model" /\ response.kind = "none")
    /\ Len(returned) <= Len(toolCalls)
    /\ \A i \in DOMAIN returned : Len(returned[i].invoked) <= 1
    /\ Len(executorLog) = Sum([i \in DOMAIN returned |-> Len(returned[i].invoked)])

\* A batch of two calls was executed, the executor failed for one of them,
\* and the completion request that followed failed: the turn ended there.
C25_Witness ==
    /\ pc = "idle"
    /\ CompletionFailed
    /\ cycles = <<2>>
    /\ ret.kind = "err"
    /\ \E i \in DOMAIN messages :
         /\ messages[i].Role = "tool"
         /\ Head(messages[i].Content.text) = "Error executing "

\* The goroutines whose completion request is in flight.
Outstanding == {c \in Callers : callers[c].pc = "awaiting-model"}

\* The history from the position goroutine c started at holds the messages c
\* has appended in its turn and nothing else.
TurnContiguous(c) ==
    /\ Len(messages) = callers[c].base + Len(callers[c].appended)
    /\ \A i \in DOMAIN callers[c].appended :
         messages[callers[c].base + i] = callers[c].appended[i]

\* C26: at most one completion request of the session is outstanding at any
\* time, a batch is executed only once the response that requested it has
\* been received, and, also with two callers of ProcessMessage on the same
\* manager, the messages appended during a running turn are those of that
\* turn, uninterrupted by appends of the other caller.
C26_AsStated ==
    /\ Cardinality(Outstanding) <= 1
    /\ \A c \in Callers : callers[c].pc = "awaiting-tools" => ~callers[c].request.sent
    /\ \A c \in Callers :
         callers[c].pc \in {"awaiting-model", "awaiting-tools"} => TurnContiguous(c)

\* The text ExecuteFunctions puts in the result of a call for what
\* ExecuteFunction returned for that call.
OwnText(r) ==
    IF ~r.err.isNil THEN <<"Function execution failed: ">> \o r.err.msg
    ELSE r.result.Content

\* C27: once a batch has been executed and its results appended, the i-th
\* tool message carries the identifier of the i-th call and the output or
\* error text of the i-th call, whatever the other calls of the batch
\* resulted in; and a text ProcessMessage returns is the content of the
\* choice of the last completion, which is the last message of the history.
C27_OwnResultContent ==
    /\ (pc = "awaiting-model" /\ depth > 0) =>
          /\ Len(returned) = Len(toolCalls)
          /\ \A i \in 1..Len(toolCalls) :
               LET m == messages[Len(messages) - Len(toolCalls) + i]
               IN /\ m.Role = "tool"
                  /\ m.ToolCallID = toolCalls[i].ID
                  /\ ~m.Content.isNil
                  /\ m.Content.text = OwnText(returned[i])
    /\ ret.kind = "text" =>
          /\ HasChoice
          /\ ret.text = response.Choices[1].Content.text
          /\ messages[Len(messages)] = response.Choices[1]

\* The first call of a batch of two answered "12 events", the second failed
\* with "connection refused", and the turn ended with the model's text: both
\* tool messages are in the history, each with its own text.
C27_Witness ==
    /\ pc = "idle"
    /\ ret.kind = "text"
    /\ cycles = <<2>>
    /\ Len(messages) = base + 5
    /\ Contains(messages[base + 3].Content.text, "12 events")
    /\ ~IsFailure([Content |-> messages[base + 3].Content.text])
    /\ Contains(messages[base + 4].Content.text, "connection refused")
    /\ messages[base + 5].Role = "assistant"
    /\ ret.text = messages[base + 5].Content.text

\* C28: the content of a tool call result is never absent: every tool
\* message of the history has a content that is not the empty text, also for
\* a call the executor answered without error and without a text fragment.
C28_AsStated ==
    \A i \in DOMAIN messages :
        messages[i].Role = "tool" =>
            /\ ~messages[i].Content.isNil
            /\ messages[i].Content.text # <<>>

\* C29: the engine goes through as many call/continue cycles as the model
\* asks for.  A response with tool calls is always followed by the execution
\* of its batch and a further completion request; the K-th batch of a turn is
\* executed after exactly K requests and followed by request K + 1; a text
\* ProcessMessage returns after K batches is the text of the response to
\* request K + 1, a response without tool calls; a turn that ends otherwise
\* ends with an error; and a running turn always comes to its end.
C29_UnboundedCycles ==
    /\ [](/\ pc = "awaiting-model" => (request.sent /\ sent = Len(cycles) + 1)
          /\ pc = "awaiting-tools" => sent = Len(cycles)
          /\ ret.kind = "text" =>
               /\ pc = "idle"
               /\ sent = Len(cycles) + 1
               /\ HasChoice
               /\ Len(response.Choices[1].ToolCalls) = 0
               /\ ret.text = response.Choices[1].Content.text)
    /\ [][(pc = "awaiting-model" /\ HasChoice' /\ Len(response'.Choices[1].ToolCalls) > 0)
          => (pc' = "awaiting-tools" /\ Len(cycles') = Len(cycles) + 1)]_vars
    /\ [][(pc # "idle" /\ pc' = "idle" /\ ret'.kind # "text") => ret'.kind = "err"]_vars
    /\ (pc # "idle") ~> (pc = "idle")

\* ProcessMessage returned the model's text after as many batches as the
\* conversation's call budget allows, one call each, and one more request.
C29_Witness ==
    /\ pc = "idle"
    /\ ret.kind = "text"
    /\ Len(cycles) = MaxCalls
    /\ sent = MaxCalls + 1
    /\ Len(messages) = base + 2 + 2 * MaxCalls

\* The destination is bracketed: it opens with "[" and holds a "]".
Bracketed(d) == d # <<>> /\ d[1] = "[" /\ \E i \in DOMAIN d : d[i] = "]"

\* The position of the bracket that closes the bracketed part.
ClosingBracket(d) == CHOOSE i \in DOMAIN d : d[i] = "]" /\ \A j \in 1..(i - 1) : d[j] # "]"

\* The positions of the colons of d.
Colons(d) == {i \in DOMAIN d : d[i] = ":"}

\* The last colon of d.
LastColon(d) == CHOOSE i \in Colons(d) : \A j \in Colons(d) : j <= i

\* The text of d the port is read from; <<>> when there is none.
PortText(d) ==
    IF Bracketed(d)
    THEN IF ClosingBracket(d) < Len(d) /\ d[ClosingBracket(d) + 1] = ":"
         THEN SubSeq(d, ClosingBracket(d) + 2, Len(d))
         ELSE <<>>
    ELSE IF Colons(d) # {} THEN SubSeq(d, LastColon(d) + 1, Len(d))
    ELSE <<>>

\* The numbers 0..65535 that text is a decimal numeral of.
PortNumbers(text) ==
    IF text # <<>> /\ \A i \in DOMAIN text : text[i] \in Digits
    THEN {n \in {DecimalValue(text)} : n <= 65535}
    ELSE {}

\* C30: ToConnectionEvent copies PID, Command, Protocol, ReturnCode and
\* Destination; for a bracketed destination the IP is the bracketed part and
\* the port is read from what follows "]:", otherwise the IP is the text
\* before the last colon, the whole destination when it has no colon, and
\* the port is read from the text after that colon; the port is 0 when that
\* text is missing or is no decimal numeral of 0..65535; an empty destination
\* gives the IP "" and the port 0.
C30_DestinationSplit ==
    ~event.isNil =>
        LET d == ci.Destination IN
        /\ event.PID = ci.PID
        /\ event.Command = ci.Command
        /\ event.Protocol = ci.Protocol
        /\ event.ReturnCode = ci.ReturnCode
        /\ event.Destination = d
        /\ event.DestinationIP =
             IF Bracketed(d) THEN SubSeq(d, 1, ClosingBracket(d))
             ELSE IF Colons(d) # {} THEN SubSeq(d, 1, LastColon(d) - 1)
             ELSE d
        /\ IF PortNumbers(PortText(d)) = {}
           THEN event.DestinationPort = 0
           ELSE event.DestinationPort \in PortNumbers(PortText(d))
        /\ d = <<>> => (event.DestinationIP = <<>> /\ event.DestinationPort = 0)

\* A destination with several colons and a port too large for 16 bits has
\* been converted.
C30_Witness ==
    /\ ~event.isNil
    /\ ci.Destination = <<"h", "o", "s", "t", ":", "9", "9", "9", "9", "9">>
    /\ event.DestinationIP = <<"h", "o", "s", "t">>
    /\ event.DestinationPort = 0

EventLines(text) == SelectSeq(text, LAMBDA l : l.kind = EventLine(CHOOSE e \in ListedEvents : TRUE).kind)
MoreLines(text) == SelectSeq(text, LAMBDA l : l.kind = MoreLine(0).kind)
Minimum(a, b) == IF a < b THEN a ELSE b

\* C31: FormatConnectionEvents returns exactly "No connection events found"
\* for an empty list; for a non-empty list the text starts with the "Recent
\* connection events" line reporting the total, lists min(len(events),
\* maxEvents) events, the most recent timestamp first, and has a "... and N
\* more events" line, N = len(events) - maxEvents, exactly when len(events) >
\* maxEvents.
C31_AsStated ==
    listing.called =>
        IF listing.given = <<>>
        THEN listing.text = <<NoEventsLine>>
        ELSE /\ listing.text[1] = HeaderLine(Len(listing.given))
             /\ Len(EventLines(listing.text)) =
                    Minimum(Len(listing.given), listing.maxEvents)
             /\ \A i, j \in DOMAIN listing.events :
                    i < j => listing.events[i].TimestampNS >= listing.events[j].TimestampNS
             /\ \A i \in DOMAIN EventLines(listing.text) :
                    listing.text[i + 1] = EventLine(listing.events[i])
             /\ IF Len(listing.given) > listing.maxEvents
                THEN MoreLines(listing.text) =
                        <<MoreLine(Len(listing.given) - listing.maxEvents)>>
                ELSE MoreLines(listing.text) = <<>>

\* The texts of the text fragments of a result, in order.
TextFragments(content) ==
    LET texts == SelectSeq(content, LAMBDA c : c.kind = "text")
    IN [i \in DOMAIN texts |-> texts[i].text]

\* The calls of the running batch the executor answered without error, as
\* pairs of the Content of its result and the content of the call's result.
Extracted ==
    { <<returned[i].invoked[1].content, returned[i].result.Content>> :
        i \in { j \in DOMAIN returned :
                  /\ returned[j].err.isNil
                  /\ Len(returned[j].invoked) = 1
                  /\ returned[j].invoked[1].err.isNil } }

\* C32: on success the content of a tool result is the concatenation, in the
\* order returned by the executor, of the text fragments of the executor's
\* result and nothing else: the single fragment "12 events" yields the
\* content "12 events".
C32_AsStated ==
    \A x \in Extracted : x[2] = TextFragments(x[1])

\* C32 (amended): on success the content of a tool result is made of the text
\* fragments of the executor's result in the order returned, each followed by
\* a line break; fragments that are no text contribute nothing; and the tool
\* message appended for the call carries that content.
C32_FragmentsEachWithNewline ==
    /\ \A x \in Extracted :
          /\ Len(x[2]) = 2 * Len(TextFragments(x[1]))
          /\ \A i \in DOMAIN TextFragments(x[1]) :
                /\ x[2][2 * i - 1] = TextFragments(x[1])[i]
                /\ x[2][2 * i] = "\n"
    /\ (pc = "awaiting-model" /\ depth > 0) =>
          \A i \in DOMAIN returned :
              (returned[i].err.isNil /\ returned[i].invoked[1].err.isNil) =>
                  messages[Len(messages) - Len(toolCalls) + i].Content
                      = StrPtr(returned[i].result.Content)

\* A call answered with a text, an image and a second text: its tool message
\* holds the two texts in order, each with its line break.
C32_Witness ==
    /\ pc = "awaiting-model"
    /\ Len(toolCalls) = 1
    /\ Len(returned) = 1
    /\ Len(returned[1].invoked) = 1
    /\ returned[1].invoked[1].content =
          <<TextContent("12 events"), ImageContent, TextContent("3 drops")>>
    /\ messages[Len(messages)].Role = "tool"
    /\ messages[Len(messages)].Content = StrPtr(<<"12 events", "\n", "3 drops", "\n">>)

\* The rules of the Query Enhancer in the order of their priority: the
\* keywords of a rule and its suffix.
EnhancerRules ==
    << [keywords |-> {Kw.AllAvailableTools, Kw.UseAllTools}, suffix |-> Suffix.AllTools],
       [keywords |-> {Kw.Comprehensive, Kw.CompleteAnalysis}, suffix |-> Suffix.Comprehensive],
       [keywords |-> {Kw.Summary, Kw.Overview}, suffix |-> Suffix.Summary],
       [keywords |-> {Kw.Drop, Kw.Loss, Kw.Packet}, suffix |-> Suffix.Drops],
       [keywords |-> {Kw.Pattern, Kw.Behavior}, suffix |-> Suffix.Patterns],
       [keywords |-> {Kw.Connection, Kw.Network}, suffix |-> Suffix.Connections] >>

\* The keyword occurs in the query, whatever the case of the query's letters.
Occurs(keyword, query) ==
    \E i \in 0..(Len(query) - Len(keyword)) :
        \A j \in 1..Len(keyword) : ToLowerChar(query[i + j]) = keyword[j]

\* The rules a keyword of which occurs in the query.
MatchingRules(query) ==
    { r \in DOMAIN EnhancerRules : \E k \in EnhancerRules[r].keywords : Occurs(k, query) }

\* C33: the enhanced query is the query followed by one suffix: that of the
\* matching rule of the highest priority (all tools, comprehensive, summary,
\* drops, patterns, connections), whatever other rules match and whatever
\* the case of the letters, and the generic suffix when no rule matches.
C33_FirstMatchingRule ==
    ~enhancedQuery.isNil =>
        LET query == asked.query
            matching == MatchingRules(query)
        IN /\ Len(enhancedQuery.text) = Len(query) + 1
           /\ SubSeq(enhancedQuery.text, 1, Len(query)) = query
           /\ enhancedQuery.text[Len(query) + 1] =
                 IF matching = {} THEN Suffix.Default
                 ELSE EnhancerRules[CHOOSE r \in matching : \A o \in matching : r <= o].suffix

\* "NETWORK PACKET" holds a keyword of the connections rule before one of
\* the drops rule and gets the suffix of the drops rule.
C33_Witness ==
    /\ asked.query = Capitals(JoinWords(<<Kw.Network, Kw.Packet>>))
    /\ ~enhancedQuery.isNil
    /\ enhancedQuery.text = asked.query \o <<Suffix.Drops>>

SystemMessages == { i \in DOMAIN messages : messages[i].Role = "system" }

\* C34: whatever operations of the analyst were called and however they
\* ended, the history starts with the system message that carries the
\* system prompt, and no other message of the history is a system message.
C34_OneSystemMessageFirst ==
    /\ Len(messages) >= 1
    /\ messages[1] = ChatMessage("system", StrPtr(SystemPrompt), <<>>, "")
    /\ SystemMessages = {1}

\* AnalyzeProcess was called on a history that held the system prompt alone
\* and failed on its completion request: the history is the system prompt
\* and the query of the failed call.
C34_Witness ==
    /\ asked.op = "AnalyzeProcess"
    /\ asked.before = 1
    /\ pc = "idle"
    /\ ret.kind = "err"
    /\ Len(messages) = 2
    /\ messages[1].Role = "system"
    /\ messages[2].Role = "user"

UserMessagesSince(n) ==
    { i \in (n + 1)..Len(messages) : messages[i].Role = "user" }

\* C35: the user message ContinueConversation appends is the caller's
\* message as it is; the one AnalyzeNetworkQuery, AnalyzeProcess,
\* GetNetworkHealth and GetComprehensiveAnalysis append is the query with a
\* suffix of the Query Enhancer, the enhanced query; and from the call on the
\* history holds that one user message and no other.
C35_OnlyContinueBypassesEnhancer ==
    asked.op \in EnhancingOperations \cup {"ContinueConversation"} =>
        LET m == messages[asked.before + 1] IN
        /\ UserMessagesSince(asked.before) = {asked.before + 1}
        /\ m.Role = "user"
        /\ ~m.Content.isNil
        /\ IF asked.op = "ContinueConversation"
           THEN m.Content.text = asked.query
           ELSE /\ m.Content.text = enhanceUserQuery(asked.query)
                /\ \E s \in Suffixes : m.Content.text = asked.query \o <<s>>

\* "Summary" was sent with ContinueConversation and stands in the history
\* without a suffix, after an AnalyzeProcess by name whose query stands there
\* with the suffix of its first matching rule, that of patterns.
C35_Witness ==
    /\ asked.op = "ContinueConversation"
    /\ asked.query = QuerySummaryUpper
    /\ asked.before >= 2
    /\ messages[asked.before + 1].Content.text = QuerySummaryUpper
    /\ messages[2].Content.text =
          AnalyzeProcessQuery(<<"c", "u", "r", "l">>, 0, 300) \o <<Suffix.Patterns>>

OwnAnswers ==
    {"Unknown tool: %s", "Tool %s is registered but handler not implemented"}

\* C36: every name of the catalog discovered from GetRegisteredTools is
\* dispatched by RunSingleCommand to a handler: RunSingleCommand answers no
\* such name with "Unknown tool" or "registered but handler not implemented",
\* and no call a session hands to it is answered so.
C36_CatalogExecutable ==
    /\ \A name \in DiscoveredNames(ServerExecutor) :
          /\ RunSingleCommand(name) \notin OwnAnswers
          /\ \E k \in DOMAIN RunSingleCommandSwitch :
                RunSingleCommand(name) = RunSingleCommandSwitch[k]
    /\ \A i \in DOMAIN sessions : sessions[i].catalog = DiscoveredNames(ServerExecutor)
    /\ dispatched.answer \notin OwnAnswers
    /\ (dispatched # NoDispatch /\ dispatched.toolName \in DiscoveredNames(ServerExecutor)) =>
          dispatched.answer = RunSingleCommandSwitch[dispatched.toolName]

\* The tool whose descriptor is named intelligent_analysis was called under
\* its catalog name contextual_analysis and reached its handler.
C36_Witness ==
    /\ dispatched = [toolName |-> "contextual_analysis", answer |-> "handleContextualAnalysis"]
    /\ Len(sessions) >= 1

\* C37: executing a tool call never starts another session: at most one
\* session runs at a time.
C37_AsStated == Len(sessions) <= 1

====
